---------------------------- MODULE Spec2Model ----------------------------
(***************************************************************************)
(* A model of github.com/olivere/vite: the manifest tag generator          *)
(* (Manifest.GenerateCSS / GenerateModules / GeneratePreloadModules), the  *)
(* fragment builder (HTMLFragment) and the serving handler (NewHandler,    *)
(* RegisterTemplate, SetDefaultMetadata, ServeHTTP, renderPage).           *)
(*                                                                         *)
(* Strings that the code only compares or copies are TLA+ strings.  A      *)
(* string the code takes apart (a request path, a template name) is a      *)
(* sequence of tokens, e.g. "/page.html" is <<"/", "page", ".html">>.      *)
(* A generated string of HTML is the sequence of its tags; a tag's URL is  *)
(* the sequence of the pieces the code writes: <<prefix, "/", path>>.      *)
(***************************************************************************)
EXTENDS Integers, Sequences, FiniteSets, TLC

VARIABLES
    manifest,   \* the Manifest under use: the receiver of the generator calls,
                \* and the content of the manifest file of the asset filesystem
    mfile,      \* the manifest file in the asset filesystem: "ok", "malformed", "absent"
    h,          \* the Handler (NoHandler before a successful NewHandler); its field
                \* `given` is no field of the Handler: it keeps what of the Config
                \* NewHandler does not copy into the Handler
    call,       \* the last operation called, its inputs and what it returned
    serving     \* the ServeHTTP invocations in progress: for each goroutine, how
                \* far it is and the values of its local variables

vars == <<manifest, mfile, h, call, serving>>

----------------------------------------------------------------------------
(* Bounds of the model. *)

\* Total number of entries in all `imports` lists of a generated manifest.
MaxEdges == 3

----------------------------------------------------------------------------
(* Manifest and Chunk (manifest.go).  The fields `name` and               *)
(* `isDynamicEntry` are read by no code of the package and are left out.   *)

Chunk(file, src, css, isEntry, imports, dynamicImports) ==
    [File |-> file, Src |-> src, CSS |-> css, IsEntry |-> isEntry,
     Imports |-> imports, DynamicImports |-> dynamicImports]

\* The keys of the chunks of the generated manifests, and a key that no
\* generated manifest holds.
ChunkKeys == {"a", "b", "c"}
MissingKey == "x"
Keys == ChunkKeys \cup {MissingKey}

SeqsOfLen(S, n) == [1..n -> S]
SeqToSet(s) == { s[i] : i \in DOMAIN s }
NoDuplicates(s) == \A i, j \in DOMAIN s : s[i] = s[j] => i = j

\* Every assignment of import lists to the three chunks with at most n
\* entries in total; an entry may name any key, the missing one included.
ImportGraphs(n) ==
    UNION { { [k \in ChunkKeys |-> IF k = "a" THEN ia ELSE IF k = "b" THEN ib ELSE ic] :
                ia \in SeqsOfLen(Keys, l[1]),
                ib \in SeqsOfLen(Keys, l[2]),
                ic \in SeqsOfLen(Keys, l[3]) } :
            l \in { t \in (0..n) \X (0..n) \X (0..n) : t[1] + t[2] + t[3] <= n } }

\* Chunks whose css and file differ from chunk to chunk.
OwnCSS(k) == IF k = "a" THEN <<"a.css">> ELSE IF k = "b" THEN <<"b.css">> ELSE <<"c.css">>
OwnFile(k) == IF k = "a" THEN "a.js" ELSE IF k = "b" THEN "b.js" ELSE "c.js"

\* Attribute profiles: no css and no file; one css shared with other chunks;
\* two css entries in a fixed order.  GenerateCSS never reads File and
\* GeneratePreloadModules never reads CSS, so the two vary together.
Profiles == { [CSS |-> <<>>, File |-> ""],
              [CSS |-> <<"s.css">>, File |-> "f.js"],
              [CSS |-> <<"s.css", "t.css">>, File |-> "g.js"] }

\* A manifest that varies the import graph: graph g, own css and file.
ImportGraphManifest(g) ==
    [k \in ChunkKeys |-> Chunk(OwnFile(k), k, OwnCSS(k), FALSE, g[k], <<>>)]

\* A manifest that varies the css and file of the chunks: graph g, chunk k
\* has profile p[k].
AttributeManifest(g, p) ==
    [k \in ChunkKeys |-> Chunk(p[k].File, k, p[k].CSS, FALSE, g[k], <<>>)]

\* A manifest in which chunk d[1] has the one dynamic import d[2].
DynamicManifest(g, d) ==
    [k \in ChunkKeys |->
        Chunk(OwnFile(k), k, OwnCSS(k), FALSE, g[k],
              IF k = d[1] THEN <<d[2]>> ELSE <<>>)]

Prefixes == {"", "/assets"}

----------------------------------------------------------------------------
(* The tag generator (manifest.go). *)

\* `<link rel="stylesheet" href="` prefix "/" css `">`
StylesheetLink(prefix, css) == [kind |-> "stylesheet", url |-> <<prefix, "/", css>>]

\* `<script type="module" src="` prefix "/" file `"></script>`
ModuleScript(prefix, file) == [kind |-> "module", url |-> <<prefix, "/", file>>]

\* `<link rel="modulepreload" href="` prefix "/" file `">`
ModulePreloadLink(prefix, file) == [kind |-> "modulepreload", url |-> <<prefix, "/", file>>]

\* The state of one traversal: the closure's `seen` map and `sb` builder.
\* `visits` and `from` are history only: the keys of the chunks processed,
\* in order, and for each tag of sb the key of the chunk that wrote it.
NewWalk == [seen |-> {}, sb |-> <<>>, visits |-> <<>>, from |-> <<>>]

\* for _, css := range chunk.CSS { sb.WriteString(...) }
RECURSIVE writeCSS(_, _, _, _)
writeCSS(prefix, name, css, st) ==
    IF css = <<>> THEN st
    ELSE writeCSS(prefix, name, Tail(css),
                  [st EXCEPT !.sb = Append(@, StylesheetLink(prefix, Head(css))),
                             !.from = Append(@, name)])

RECURSIVE addCSS(_, _, _, _)
RECURSIVE addCSSImports(_, _, _, _)

\* Mutant: the seen set of a finished import is dropped, so only the chunks
\* on the path from the root stay marked.
addCSSImports_PerBranchSeen(m, prefix, imports, st) ==
    IF imports = <<>> THEN st
    ELSE LET r == addCSS(m, prefix, Head(imports), st)
         IN addCSSImports(m, prefix, Tail(imports), [r EXCEPT !.seen = st.seen])

\* Mutant: the loop over the imports ends at the first key that the
\* manifest does not hold.
addCSSImports_StopAtMissing(m, prefix, imports, st) ==
    IF imports = <<>> \/ Head(imports) \notin DOMAIN m THEN st
    ELSE addCSSImports(m, prefix, Tail(imports), addCSS(m, prefix, Head(imports), st))

\* for _, imp := range chunk.Imports { addCSS(imp) }
addCSSImports(m, prefix, imports, st) ==
    IF imports = <<>> THEN st
    ELSE addCSSImports(m, prefix, Tail(imports), addCSS(m, prefix, Head(imports), st))

\* Mutant: a chunk's css is written after its imports (post-order).
addCSS_PostOrder(m, prefix, name, st) ==
    IF name \in st.seen THEN st
    ELSE LET st1 == [st EXCEPT !.seen = @ \cup {name}] IN
         IF name \notin DOMAIN m THEN st1
         ELSE LET chunk == m[name]
                  st2 == addCSSImports(m, prefix, chunk.Imports,
                                       [st1 EXCEPT !.visits = Append(@, name)])
              IN writeCSS(prefix, name, chunk.CSS, st2)

\* Mutant: the traversal follows dynamicImports as well as imports.
addCSS_FollowsDynamic(m, prefix, name, st) ==
    IF name \in st.seen THEN st
    ELSE LET st1 == [st EXCEPT !.seen = @ \cup {name}] IN
         IF name \notin DOMAIN m THEN st1
         ELSE LET chunk == m[name]
                  st2 == writeCSS(prefix, name, chunk.CSS,
                                  [st1 EXCEPT !.visits = Append(@, name)])
              IN addCSSImports(m, prefix, chunk.Imports \o chunk.DynamicImports, st2)

addCSS(m, prefix, name, st) ==
    IF name \in st.seen THEN st
    ELSE LET st1 == [st EXCEPT !.seen = @ \cup {name}] IN
         IF name \notin DOMAIN m THEN st1
         ELSE LET chunk == m[name]
                  st2 == writeCSS(prefix, name, chunk.CSS,
                                  [st1 EXCEPT !.visits = Append(@, name)])
              IN addCSSImports(m, prefix, chunk.Imports, st2)

CSSWalk(m, name, prefix) == addCSS(m, prefix, name, NewWalk)

GenerateCSS(m, name, prefix) == CSSWalk(m, name, prefix).sb

\* Mutant: the check of chunk.File is missing.
GenerateModules_NoFileCheck(m, name, prefix) ==
    IF name \notin DOMAIN m THEN <<>>
    ELSE <<ModuleScript(prefix, m[name].File)>>

GenerateModules(m, name, prefix) ==
    IF name \notin DOMAIN m THEN <<>>
    ELSE IF m[name].File # "" THEN <<ModuleScript(prefix, m[name].File)>>
    ELSE <<>>

RECURSIVE addModulePreload(_, _, _, _)
RECURSIVE addModulePreloadImports(_, _, _, _)

\* for _, imp := range chunk.Imports { addModulePreload(imp) }
addModulePreloadImports(m, prefix, imports, st) ==
    IF imports = <<>> THEN st
    ELSE addModulePreloadImports(m, prefix, Tail(imports),
                                 addModulePreload(m, prefix, Head(imports), st))

\* Mutant: a chunk without a file returns before its imports are walked.
addModulePreload_SkipsFileless(m, prefix, name, st) ==
    IF name \in st.seen THEN st
    ELSE LET st1 == [st EXCEPT !.seen = @ \cup {name}] IN
         IF name \notin DOMAIN m THEN st1
         ELSE LET chunk == m[name]
                  st2 == [st1 EXCEPT !.visits = Append(@, name)]
              IN IF chunk.File = "" THEN st2
                 ELSE addModulePreloadImports(m, prefix, chunk.Imports,
                        [st2 EXCEPT !.sb = Append(@, ModulePreloadLink(prefix, chunk.File)),
                                    !.from = Append(@, name)])

addModulePreload(m, prefix, name, st) ==
    IF name \in st.seen THEN st
    ELSE LET st1 == [st EXCEPT !.seen = @ \cup {name}] IN
         IF name \notin DOMAIN m THEN st1
         ELSE LET chunk == m[name]
                  st2 == [st1 EXCEPT !.visits = Append(@, name)]
                  st3 == IF chunk.File # ""
                         THEN [st2 EXCEPT !.sb = Append(@, ModulePreloadLink(prefix, chunk.File)),
                                          !.from = Append(@, name)]
                         ELSE st2
              IN addModulePreloadImports(m, prefix, chunk.Imports, st3)

PreloadWalk(m, name, prefix) == addModulePreload(m, prefix, name, NewWalk)

GeneratePreloadModules(m, name, prefix) == PreloadWalk(m, name, prefix).sb

----------------------------------------------------------------------------
(* The generator calls as operations on a manifest.  The generators are   *)
(* pure: a call after another one reaches no state that the first call    *)
(* from the same manifest does not reach, so a behaviour makes one call.  *)

NoHandler == [constructed |-> FALSE]
NoCall == [op |-> "none"]
NoServing == << >>

InitGen ==
    /\ \/ \E g \in ImportGraphs(MaxEdges) : manifest = ImportGraphManifest(g)
       \/ \E g \in ImportGraphs(MaxEdges - 1), p \in [ChunkKeys -> Profiles] :
             manifest = AttributeManifest(g, p)
       \/ \E g \in ImportGraphs(MaxEdges - 1), d \in ChunkKeys \X Keys :
             manifest = DynamicManifest(g, d)
    /\ mfile = "ok"
    /\ h = NoHandler
    /\ call = NoCall
    /\ serving = NoServing

CallGenerateCSS ==
    \E name \in Keys, prefix \in Prefixes :
        LET w == CSSWalk(manifest, name, prefix) IN
        /\ call.op = "none"
        /\ call' = [op |-> "GenerateCSS", name |-> name, prefix |-> prefix,
                    out |-> GenerateCSS(manifest, name, prefix),
                    visits |-> w.visits, from |-> w.from]
        /\ UNCHANGED <<manifest, mfile, h, serving>>

CallGenerateModules ==
    \E name \in Keys, prefix \in Prefixes :
        /\ call.op = "none"
        /\ call' = [op |-> "GenerateModules", name |-> name, prefix |-> prefix,
                    out |-> GenerateModules(manifest, name, prefix),
                    visits |-> <<>>, from |-> <<>>]
        /\ UNCHANGED <<manifest, mfile, h, serving>>

CallGeneratePreloadModules ==
    \E name \in Keys, prefix \in Prefixes :
        LET w == PreloadWalk(manifest, name, prefix) IN
        /\ call.op = "none"
        /\ call' = [op |-> "GeneratePreloadModules", name |-> name, prefix |-> prefix,
                    out |-> GeneratePreloadModules(manifest, name, prefix),
                    visits |-> w.visits, from |-> w.from]
        /\ UNCHANGED <<manifest, mfile, h, serving>>

NextGen ==
    \/ CallGenerateCSS
    \/ CallGenerateModules
    \/ CallGeneratePreloadModules

SpecGen == InitGen /\ [][NextGen]_vars

----------------------------------------------------------------------------
(* Strings taken apart by the code, as token sequences. *)

\* strings.TrimPrefix(s, "/")
TrimPrefixSlash(s) == IF s # <<>> /\ Head(s) = "/" THEN Tail(s) ELSE s

\* strings.TrimSuffix(s, ".html")
TrimSuffixHTML(s) ==
    IF s # <<>> /\ s[Len(s)] = ".html" THEN SubSeq(s, 1, Len(s) - 1) ELSE s

\* The elements of a path between its slashes; "/a//b" gives <<>>, a, <<>>, b.
RECURSIVE SplitPath(_, _, _)
SplitPath(p, cur, acc) ==
    IF p = <<>> THEN Append(acc, cur)
    ELSE IF Head(p) = "/" THEN SplitPath(Tail(p), <<>>, Append(acc, cur))
    ELSE SplitPath(Tail(p), Append(cur, Head(p)), acc)

\* path.Clean's pass over the elements: an empty element and "." are
\* dropped; ".." removes the element before it, is dropped at the root of a
\* rooted path, and is kept at the start of a relative one.
RECURSIVE cleanElements(_, _, _, _)
cleanElements(elems, rooted, out, kept) ==
    IF elems = <<>> THEN out
    ELSE LET e == Head(elems) IN
         IF e = <<>> \/ e = <<".">>
         THEN cleanElements(Tail(elems), rooted, out, kept)
         ELSE IF e = <<"..">>
         THEN IF Len(out) > kept
              THEN cleanElements(Tail(elems), rooted, SubSeq(out, 1, Len(out) - 1), kept)
              ELSE IF ~rooted
              THEN cleanElements(Tail(elems), rooted, Append(out, e), kept + 1)
              ELSE cleanElements(Tail(elems), rooted, out, kept)
         ELSE cleanElements(Tail(elems), rooted, Append(out, e), kept)

RECURSIVE joinElements(_)
joinElements(elems) ==
    IF elems = <<>> THEN <<>>
    ELSE IF Len(elems) = 1 THEN Head(elems)
    ELSE Head(elems) \o <<"/">> \o joinElements(Tail(elems))

\* path.Clean
Clean(p) ==
    LET rooted == p # <<>> /\ Head(p) = "/"
        out == cleanElements(SplitPath(p, <<>>, <<>>), rooted, <<>>, 0)
        r == (IF rooted THEN <<"/">> ELSE <<>>) \o joinElements(out)
    IN IF r = <<>> THEN <<".">> ELSE r

RootPath == <<"/">>
IndexPath == <<"/", "index", ".html">>
IndexName == <<"index", ".html">>

\* url.Parse of the URLs that configurations give as Config.ViteURL: the
\* scheme and host, and the path as tokens.  "http://[::1" has no closing
\* bracket and does not parse.
TrailingSlashURL == "http://vite:3000/"
MalformedURL == "http://[::1"
ParseURL(u) ==
    IF u = MalformedURL THEN [err |-> TRUE, origin |-> "", path |-> <<>>]
    ELSE IF u = TrailingSlashURL THEN [err |-> FALSE, origin |-> "http://vite:3000", path |-> <<"/">>]
    ELSE [err |-> FALSE, origin |-> u, path |-> <<>>]

\* The tokens of a path given as one string, as Config.ViteEntry is.
LeadingSlashEntry == "/src/app.tsx"
PathTokens(e) ==
    IF e = "" THEN <<>>
    ELSE IF e = LeadingSlashEntry THEN <<"/", "src/app.tsx">>
    ELSE <<e>>

\* url.JoinPath(base, elem): the path of base and elem joined by path.Join,
\* which cleans the result; a relative path loses the slash put before it;
\* a trailing slash of elem is kept; URL.String writes a slash between a
\* host and a path that does not start with one.
JoinPath(base, elem) ==
    LET u == ParseURL(base)
        rooted == u.path # <<>> /\ Head(u.path) = "/"
        first == IF rooted THEN u.path ELSE <<"/">> \o u.path
        joined == Clean(IF elem = <<>> THEN first ELSE first \o <<"/">> \o elem)
        p == IF rooted THEN joined ELSE Tail(joined)
        q == IF elem # <<>> /\ elem[Len(elem)] = "/" /\ (p = <<>> \/ p[Len(p)] # "/")
             THEN Append(p, "/") ELSE p
        text == IF u.origin # "" /\ q # <<>> /\ Head(q) # "/"
                THEN <<u.origin, "/">> \o q
                ELSE (IF u.origin # "" THEN <<u.origin>> ELSE <<>>) \o q
    IN [err |-> u.err, url |-> IF u.err THEN <<>> ELSE text]

----------------------------------------------------------------------------
(* The filesystems handed to the handler (fs.FS, http.FS). *)

DefaultManifestPath == ".vite/manifest.json"

\* The files of the asset filesystem, beside the manifest file.
MainFiles ==
    { <<"index", ".html">>, <<"page">>, <<"a", ".txt">>,
      <<"public", "/", "index", ".html">>, <<"public", "/", "a", ".txt">>,
      <<"public", "/", "p", ".txt">> }

\* The files of the filesystem passed as Config.PublicFS.
GivenPublicFiles == { <<"index", ".html">>, <<"page">>, <<"p", ".txt">> }

\* fs.Sub(fsys, dir): the files below dir, named relative to it.
SubFiles(files, dir) ==
    { SubSeq(f, 3, Len(f)) : f \in { g \in files : Len(g) > 2 /\ g[1] = dir /\ g[2] = "/" } }

\* fs.ValidPath
ValidPath(name) ==
    \/ name = <<".">>
    \/ /\ name # <<>>
       /\ \A e \in SeqToSet(SplitPath(name, <<>>, <<>>)) : e \notin { <<>>, <<".">>, <<"..">> }

IsDir(files, name) ==
    \E f \in files : /\ Len(f) > Len(name) + 1
                     /\ SubSeq(f, 1, Len(name)) = name
                     /\ f[Len(name) + 1] = "/"

\* http.FS(fsys).Open(path) succeeds: "/" opens ".", a leading slash is cut,
\* and the name must be a valid path of a file or a directory.
Opens(files, path) ==
    LET name == IF path = RootPath THEN <<".">> ELSE TrimPrefixSlash(path)
    IN /\ ValidPath(name)
       /\ (name = <<".">> \/ name \in files \/ IsDir(files, name))

\* The files that h.pubFS serves.
PubFiles(hh) ==
    IF hh.pub = "given" THEN GivenPublicFiles
    ELSE IF hh.pub = "sub" THEN SubFiles(MainFiles, "public")
    ELSE {}

\* ParseManifest on the manifest file: an error when it is malformed.
ParseManifest(state, content) ==
    IF state = "malformed" THEN [err |-> TRUE, m |-> << >>]
    ELSE [err |-> FALSE, m |-> content]

\* Variant: the manifest is found whatever path is configured.
ManifestOpens_IgnoresPath(state, path) == state # "absent"

\* fs.Open of the manifest path succeeds.
ManifestOpens(state, path) == state # "absent" /\ path = DefaultManifestPath

----------------------------------------------------------------------------
(* Entry points (manifest.go).  Go ranges over a map in an order of its   *)
(* choice: `order` is that order, a permutation of the keys.              *)

RECURSIVE IterationOrders(_)
IterationOrders(S) ==
    IF S = {} THEN { <<>> }
    ELSE UNION { { <<x>> \o q : q \in IterationOrders(S \ {x}) } : x \in S }

\* A *Chunk is the key of the chunk it points to; NilChunk is nil.
NilChunk == [nil |-> TRUE, key |-> ""]
ChunkPtr(k) == [nil |-> FALSE, key |-> k]

\* Variant: the iteration stops at the first entry chunk.
GetEntryPoints_FirstOnly(m, order) ==
    LET IsEntry(k) == m[k].IsEntry
        entries == SelectSeq(order, IsEntry)
    IN IF entries = <<>> THEN <<>> ELSE <<Head(entries)>>

\* GetEntryPoints: the entry chunks in the order of the iteration.
GetEntryPoints(m, order) ==
    LET IsEntry(k) == m[k].IsEntry IN SelectSeq(order, IsEntry)

\* GetEntryPoint: the first entry chunk of the iteration, or nil.
GetEntryPoint(m, order) ==
    LET entries == GetEntryPoints(m, order)
    IN IF entries = <<>> THEN NilChunk ELSE ChunkPtr(Head(entries))

\* Variant: no match falls back to the first entry of the iteration.
findEntry_SilentFallback(m, entries, viteEntry) ==
    LET hits == { i \in DOMAIN entries : m[entries[i]].Src = viteEntry }
    IN IF entries = <<>> THEN NilChunk
       ELSE IF hits # {} THEN ChunkPtr(entries[CHOOSE i \in hits : \A j \in hits : i <= j])
       ELSE ChunkPtr(Head(entries))

\* for _, entry := range entries { if viteEntry == entry.Src { chunk = entry; break } }
RECURSIVE findEntry(_, _, _)
findEntry(m, entries, viteEntry) ==
    IF entries = <<>> THEN NilChunk
    ELSE IF viteEntry = m[Head(entries)].Src THEN ChunkPtr(Head(entries))
    ELSE findEntry(m, Tail(entries), viteEntry)

\* Variant: the generators are given the key of the chunk found.
ChunkSrc_Key(m, chunk) == chunk.key

\* chunk.Src of the chunk found, the name that the generators are given.
ChunkSrc(m, chunk) == m[chunk.key].Src

----------------------------------------------------------------------------
(* Scaffolding (config.go) and the preamble. *)

React == 1
ReactTs == 2
ReactSwc == 3
ReactSwcTs == 4
Vanilla == 5
VanillaTs == 6
Vue == 7
VueTs == 8
Preact == 9
PreactTs == 10
Lit == 11
LitTs == 12
Svelte == 13
SvelteTs == 14
Solid == 15
SolidTs == 16
Qwik == 17
QwikTs == 18
None == 19

RequiresPreamble(s) == s \in {React, ReactTs, ReactSwc, ReactSwcTs}

\* PluginReactPreamble(server): the script that imports server/@react-refresh.
PluginReactPreamble(server) ==
    <<[kind |-> "preamble", url |-> JoinPath(server, <<"/", "@react-refresh">>).url]>>

\* Variant: only the React template has a preamble.
Preamble_ReactOnly(s, viteURL) ==
    IF s = React THEN PluginReactPreamble(viteURL) ELSE <<>>

\* Scaffolding.Preamble
Preamble(s, viteURL) ==
    IF s \in {React, ReactTs, ReactSwc, ReactSwcTs} THEN PluginReactPreamble(viteURL) ELSE <<>>

DefaultViteURL == "http://localhost:5173"

----------------------------------------------------------------------------
(* The handler (handler.go). *)

fallbackTemplateName == <<"fallback", ".html">>
fallbackHTML == "fallbackHTML"

\* A template text whose execution fails.
FailingText == "{{.Undefined}}"
ExecFails(text) == text = FailingText

EmptyManifest == [k \in {} |-> Chunk("", "", <<>>, FALSE, <<>>, <<>>)]

\* What a call did with the filesystem: h.fs.Open(path), ParseManifest on
\* the opened file, fs.Sub(config.FS, dir).
OpenAccess(path) == [access |-> "open", name |-> path]
ParseAccess(path) == [access |-> "parse", name |-> path]
SubAccess(dir) == [access |-> "sub", name |-> dir]

\* Variant: the filesystem is checked in production mode only, once the
\* manifest is wanted.
NewHandlerResult_LateNilCheck(config, state, content) ==
    LET h0 == [constructed |-> TRUE,
               isDev |-> config.IsDev,
               viteEntry |-> config.ViteEntry,
               viteURL |-> config.ViteURL,
               viteTemplate |-> config.ViteTemplate,
               templates |-> (fallbackTemplateName :> fallbackHTML),
               hasManifest |-> FALSE,
               manifest |-> EmptyManifest,
               pub |-> "none",
               defaultMetadata |-> "",
               given |-> [AssetsURLPrefix |-> config.AssetsURLPrefix]]
    IN IF ~h0.isDev
       THEN LET path == IF config.ViteManifest = "" THEN DefaultManifestPath
                        ELSE config.ViteManifest
            IN IF config.FS = "nil" \/ ~ManifestOpens(state, path)
               THEN [err |-> "vite: open manifest", h |-> NoHandler,
                     accesses |-> <<OpenAccess(path)>>]
               ELSE LET r == ParseManifest(state, content)
                    IN IF r.err
                       THEN [err |-> "vite: parse manifest", h |-> NoHandler,
                             accesses |-> <<OpenAccess(path), ParseAccess(path)>>]
                       ELSE [err |-> "",
                             h |-> [h0 EXCEPT !.hasManifest = TRUE, !.manifest = r.m],
                             accesses |-> <<OpenAccess(path), ParseAccess(path)>>]
       ELSE LET h1 == IF h0.viteURL = "" THEN [h0 EXCEPT !.viteURL = DefaultViteURL] ELSE h0
            IN IF config.PublicFS = "nil"
               THEN [err |-> "", h |-> h1, accesses |-> <<SubAccess("public")>>]
               ELSE [err |-> "", h |-> [h1 EXCEPT !.pub = "given"], accesses |-> <<>>]

\* Variant: the manifest is opened and parsed in development mode too.
NewHandlerResult_ManifestInBothModes(config, state, content) ==
    IF config.FS = "nil"
    THEN [err |-> "vite: fs is nil", h |-> NoHandler, accesses |-> <<>>]
    ELSE
    LET h0 == [constructed |-> TRUE,
               isDev |-> config.IsDev,
               viteEntry |-> config.ViteEntry,
               viteURL |-> IF config.IsDev /\ config.ViteURL = "" THEN DefaultViteURL
                           ELSE config.ViteURL,
               viteTemplate |-> config.ViteTemplate,
               templates |-> (fallbackTemplateName :> fallbackHTML),
               hasManifest |-> FALSE,
               manifest |-> EmptyManifest,
               pub |-> IF ~config.IsDev THEN "none"
                       ELSE IF config.PublicFS # "nil" THEN "given"
                       ELSE IF config.SubOK THEN "sub" ELSE "none",
               defaultMetadata |-> "",
               given |-> [AssetsURLPrefix |-> config.AssetsURLPrefix]]
        path == IF config.ViteManifest = "" THEN DefaultManifestPath ELSE config.ViteManifest
    IN IF ~ManifestOpens(state, path)
       THEN [err |-> "vite: open manifest", h |-> NoHandler,
             accesses |-> <<OpenAccess(path)>>]
       ELSE LET r == ParseManifest(state, content)
            IN IF r.err
               THEN [err |-> "vite: parse manifest", h |-> NoHandler,
                     accesses |-> <<OpenAccess(path), ParseAccess(path)>>]
               ELSE [err |-> "",
                     h |-> [h0 EXCEPT !.hasManifest = TRUE, !.manifest = r.m],
                     accesses |-> <<OpenAccess(path), ParseAccess(path)>>]

\* NewHandler: the error and the handler it returns, and the accesses to
\* the filesystem it made on the way, in their order.
NewHandlerResult(config, state, content) ==
    IF config.FS = "nil"
    THEN [err |-> "vite: fs is nil", h |-> NoHandler, accesses |-> <<>>]
    ELSE
    LET h0 == [constructed |-> TRUE,
               isDev |-> config.IsDev,
               viteEntry |-> config.ViteEntry,
               viteURL |-> config.ViteURL,
               viteTemplate |-> config.ViteTemplate,
               templates |-> (fallbackTemplateName :> fallbackHTML),
               hasManifest |-> FALSE,
               manifest |-> EmptyManifest,
               pub |-> "none",
               defaultMetadata |-> "",
               given |-> [AssetsURLPrefix |-> config.AssetsURLPrefix]]
    IN IF ~h0.isDev
       THEN LET path == IF config.ViteManifest = "" THEN DefaultManifestPath
                        ELSE config.ViteManifest
            IN IF ~ManifestOpens(state, path)
               THEN [err |-> "vite: open manifest", h |-> NoHandler,
                     accesses |-> <<OpenAccess(path)>>]
               ELSE LET r == ParseManifest(state, content)
                    IN IF r.err
                       THEN [err |-> "vite: parse manifest", h |-> NoHandler,
                             accesses |-> <<OpenAccess(path), ParseAccess(path)>>]
                       ELSE [err |-> "",
                             h |-> [h0 EXCEPT !.hasManifest = TRUE, !.manifest = r.m],
                             accesses |-> <<OpenAccess(path), ParseAccess(path)>>]
       ELSE LET h1 == IF h0.viteURL = "" THEN [h0 EXCEPT !.viteURL = DefaultViteURL] ELSE h0
            IN IF config.PublicFS = "nil"
               THEN IF config.SubOK
                    THEN [err |-> "", h |-> [h1 EXCEPT !.pub = "sub"],
                          accesses |-> <<SubAccess("public")>>]
                    ELSE [err |-> "", h |-> h1, accesses |-> <<SubAccess("public")>>]
               ELSE [err |-> "", h |-> [h1 EXCEPT !.pub = "given"], accesses |-> <<>>]

NoPage ==
    [IsDev |-> FALSE, ViteEntry |-> "", ViteURL |-> "", Metadata |-> "",
     PluginReactPreamble |-> <<>>, StyleSheets |-> <<>>, Modules |-> <<>>,
     PreloadModules |-> <<>>, Scripts |-> ""]

\* A response: what answered the request ("public", "static", "notfound",
\* "page", "error"), and for a page render the template looked up, its text
\* and the pageData passed to it.
Response(status, tmpl, text, page) ==
    [status |-> status, tmpl |-> tmpl, text |-> text, page |-> page]

\* What a template writes is a sequence of lines, one for each value it
\* prints; a line is the sequence of the tags of that value.  A value
\* printed inside {{ if }} gives no line when it is empty.
LineIf(tags) == IF tags # <<>> THEN <<tags>> ELSE <<>>

\* The text of a value that is no tag: metadata, scripts.
Text(kind, value) == IF value = "" THEN <<>> ELSE <<[kind |-> kind, url |-> <<value>>]>>

\* fallbackHTML executed on page: the lines of its <head>.
executeFallbackHTML(page) ==
    LineIf(Text("metadata", page.Metadata))
    \o (IF page.IsDev
        THEN << page.PluginReactPreamble,
                <<[kind |-> "module", url |-> <<page.ViteURL, "/", "@vite/client">>]>>,
                IF page.ViteEntry # ""
                THEN <<[kind |-> "module", url |-> <<page.ViteURL, "/", page.ViteEntry>>]>>
                ELSE <<[kind |-> "module", url |-> <<page.ViteURL, "/", "src/main.tsx">>]>> >>
        ELSE LineIf(page.StyleSheets) \o LineIf(page.Modules) \o LineIf(page.PreloadModules))
    \o LineIf(Text("scripts", page.Scripts))

\* The body of a response: the lines of the fallback template for a page
\* rendered with it.  What a registered template writes is up to its text,
\* and no part of the body here.
Body(resp) ==
    IF resp.status = "page" /\ resp.text = fallbackHTML
    THEN executeFallbackHTML(resp.page)
    ELSE <<>>

\* Variant: only the exact name is looked up before the fallback.
findTemplate_ExactOnly(templates, tmplName) ==
    IF tmplName \in DOMAIN templates THEN tmplName ELSE fallbackTemplateName

\* Variant: a variation of the name is taken before the exact name.
findTemplate_VariationFirst(templates, tmplName) ==
    LET variations == << TrimPrefixSlash(tmplName),
                         Append(TrimPrefixSlash(tmplName), ".html"),
                         TrimSuffixHTML(TrimPrefixSlash(tmplName)),
                         Append(tmplName, ".html") >>
        found == { i \in 1..4 : variations[i] \in DOMAIN templates }
    IN IF found # {} THEN variations[CHOOSE i \in found : \A j \in found : i <= j]
       ELSE IF tmplName \in DOMAIN templates THEN tmplName
       ELSE fallbackTemplateName

\* The template that renderPage finds for tmplName: the exact name, else
\* the first of the four variations, else the fallback.
findTemplate(templates, tmplName) ==
    LET variations == << TrimPrefixSlash(tmplName),
                         Append(TrimPrefixSlash(tmplName), ".html"),
                         TrimSuffixHTML(TrimPrefixSlash(tmplName)),
                         Append(tmplName, ".html") >>
        found == { i \in 1..4 : variations[i] \in DOMAIN templates }
    IN IF tmplName \in DOMAIN templates THEN tmplName
       ELSE IF found # {} THEN variations[CHOOSE i \in found : \A j \in found : i <= j]
       ELSE fallbackTemplateName

\* renderPage(w, r, path, nil)
renderPage(hh, req, path, order) ==
    LET md == IF req.md # "" THEN req.md ELSE hh.defaultMetadata
        page0 == [NoPage EXCEPT !.IsDev = hh.isDev, !.ViteEntry = hh.viteEntry,
                                !.ViteURL = hh.viteURL, !.Metadata = md,
                                !.Scripts = req.scripts]
        chunk == IF page0.ViteEntry = "" THEN GetEntryPoint(hh.manifest, order)
                 ELSE findEntry(hh.manifest, GetEntryPoints(hh.manifest, order), page0.ViteEntry)
        src == ChunkSrc(hh.manifest, chunk)
        page == IF hh.isDev
                THEN IF hh.viteTemplate < 1
                     THEN [page0 EXCEPT !.PluginReactPreamble = Preamble(React, hh.viteURL)]
                     ELSE IF RequiresPreamble(hh.viteTemplate)
                     THEN [page0 EXCEPT !.PluginReactPreamble =
                                            Preamble(hh.viteTemplate, hh.viteURL)]
                     ELSE page0
                ELSE [page0 EXCEPT !.StyleSheets = GenerateCSS(hh.manifest, src, ""),
                                   !.Modules = GenerateModules(hh.manifest, src, ""),
                                   !.PreloadModules = GeneratePreloadModules(hh.manifest, src, "")]
        tmplName == IF path = RootPath THEN IndexName ELSE path
        tmpl == findTemplate(hh.templates, tmplName)
    IN IF ~hh.isDev /\ chunk.nil
       THEN Response("error", <<>>, "", NoPage)
       ELSE IF ExecFails(hh.templates[tmpl])
       THEN Response("error", tmpl, hh.templates[tmpl], page)
       ELSE Response("page", tmpl, hh.templates[tmpl], page)

\* Variant: a registered template is looked at before the public directory.
ServeHTTPResponse_TemplateFirst(hh, req, order) ==
    LET path == Clean(req.path)
        isIndexPath == path = RootPath \/ path = IndexPath
    IN IF isIndexPath \/ path \in DOMAIN hh.templates THEN renderPage(hh, req, path, order)
       ELSE IF hh.isDev /\ hh.pub # "none" /\ Opens(PubFiles(hh), path)
       THEN Response("public", <<>>, "", NoPage)
       ELSE IF ~Opens(MainFiles, path) THEN Response("notfound", <<>>, "", NoPage)
       ELSE Response("static", <<>>, "", NoPage)

\* Variant: the public directory also answers the index path.
ServeHTTPResponse_PublicServesIndex(hh, req, order) ==
    LET path == Clean(req.path)
        isIndexPath == path = RootPath \/ path = IndexPath
    IN IF hh.isDev /\ hh.pub # "none" /\ Opens(PubFiles(hh), path)
       THEN Response("public", <<>>, "", NoPage)
       ELSE IF isIndexPath THEN renderPage(hh, req, path, order)
       ELSE IF path \in DOMAIN hh.templates THEN renderPage(hh, req, path, order)
       ELSE IF ~Opens(MainFiles, path) THEN Response("notfound", <<>>, "", NoPage)
       ELSE Response("static", <<>>, "", NoPage)

\* Variant: the main filesystem is looked at before the registered templates.
ServeHTTPResponse_MainFSFirst(hh, req, order) ==
    LET path == Clean(req.path)
        isIndexPath == path = RootPath \/ path = IndexPath
    IN IF hh.isDev /\ hh.pub # "none" /\ ~isIndexPath /\ Opens(PubFiles(hh), path)
       THEN Response("public", <<>>, "", NoPage)
       ELSE IF isIndexPath THEN renderPage(hh, req, path, order)
       ELSE IF Opens(MainFiles, path) THEN Response("static", <<>>, "", NoPage)
       ELSE IF path \in DOMAIN hh.templates THEN renderPage(hh, req, path, order)
       ELSE Response("notfound", <<>>, "", NoPage)

\* Variant: a template registered under a variation of the path also renders.
ServeHTTPResponse_VariationRenders(hh, req, order) ==
    LET path == Clean(req.path)
        isIndexPath == path = RootPath \/ path = IndexPath
    IN IF hh.isDev /\ hh.pub # "none" /\ ~isIndexPath /\ Opens(PubFiles(hh), path)
       THEN Response("public", <<>>, "", NoPage)
       ELSE IF isIndexPath THEN renderPage(hh, req, path, order)
       ELSE IF findTemplate(hh.templates, path) # fallbackTemplateName
       THEN renderPage(hh, req, path, order)
       ELSE IF ~Opens(MainFiles, path) THEN Response("notfound", <<>>, "", NoPage)
       ELSE Response("static", <<>>, "", NoPage)

\* ServeHTTP(w, r)
ServeHTTPResponse(hh, req, order) ==
    LET path == Clean(req.path)
        isIndexPath == path = RootPath \/ path = IndexPath
    IN IF hh.isDev /\ hh.pub # "none" /\ ~isIndexPath /\ Opens(PubFiles(hh), path)
       THEN Response("public", <<>>, "", NoPage)
       ELSE IF isIndexPath THEN renderPage(hh, req, path, order)
       ELSE IF path \in DOMAIN hh.templates THEN renderPage(hh, req, path, order)
       ELSE IF ~Opens(MainFiles, path) THEN Response("notfound", <<>>, "", NoPage)
       ELSE Response("static", <<>>, "", NoPage)

----------------------------------------------------------------------------
(* HTMLFragment (fragment.go). *)

\* Variant: the template prints the entry script before the dev client.
htmlTmplDev_EntryFirst(pd) ==
    << pd.PluginReactPreamble,
       IF pd.ViteEntry # ""
       THEN <<[kind |-> "module", url |-> JoinPath(pd.ViteURL, PathTokens(pd.ViteEntry)).url]>>
       ELSE <<[kind |-> "module", url |-> JoinPath(pd.ViteURL, <<"/", "src/main.tsx">>).url]>>,
       <<[kind |-> "module", url |-> JoinPath(pd.ViteURL, <<"/", "@vite/client">>).url]>> >>

\* The development branch of htmlTmpl: the preamble, the dev client and
\* the entry script, one line each; the line of the preamble is there also
\* when the preamble is empty.
htmlTmplDev(pd) ==
    << pd.PluginReactPreamble,
       <<[kind |-> "module", url |-> JoinPath(pd.ViteURL, <<"/", "@vite/client">>).url]>>,
       IF pd.ViteEntry # ""
       THEN <<[kind |-> "module", url |-> JoinPath(pd.ViteURL, PathTokens(pd.ViteEntry)).url]>>
       ELSE <<[kind |-> "module", url |-> JoinPath(pd.ViteURL, <<"/", "src/main.tsx">>).url]>> >>

\* tmpl.Execute fails when urljoin returns an error.
executeHTMLTmplFails(pd) ==
    pd.IsDev /\ JoinPath(pd.ViteURL, <<"/", "@vite/client">>).err

\* Variant: the module script is printed before the stylesheets.
executeHTMLTmpl_ModulesFirst(pd) ==
    IF pd.IsDev THEN htmlTmplDev(pd)
    ELSE LineIf(pd.Modules) \o LineIf(pd.StyleSheets) \o LineIf(pd.PreloadModules)

\* htmlTmpl executed on pd.
executeHTMLTmpl(pd) ==
    IF pd.IsDev THEN htmlTmplDev(pd)
    ELSE LineIf(pd.StyleSheets) \o LineIf(pd.Modules) \o LineIf(pd.PreloadModules)

NoFragment == [nil |-> TRUE, Tags |-> <<>>]

\* HTMLFragment(config): the fragment and the error it returns; `panic`
\* when the call does not return; `accesses` as for NewHandler.
HTMLFragmentResult(config, state, content, order) ==
    LET pd0 == [NoPage EXCEPT !.IsDev = config.IsDev, !.ViteEntry = config.ViteEntry,
                              !.ViteURL = config.ViteURL]
    IN IF config.IsDev
       THEN LET pd1 == IF pd0.ViteURL = "" THEN [pd0 EXCEPT !.ViteURL = DefaultViteURL] ELSE pd0
                pd == IF config.ViteTemplate < 1
                      THEN [pd1 EXCEPT !.PluginReactPreamble = Preamble(React, pd1.ViteURL)]
                      ELSE IF RequiresPreamble(config.ViteTemplate)
                      THEN [pd1 EXCEPT !.PluginReactPreamble =
                                           Preamble(config.ViteTemplate, pd1.ViteURL)]
                      ELSE pd1
            IN IF executeHTMLTmplFails(pd)
               THEN [panic |-> FALSE, err |-> "vite: execute template", accesses |-> <<>>,
                     fragment |-> NoFragment]
               ELSE [panic |-> FALSE, err |-> "", accesses |-> <<>>,
                     fragment |-> [nil |-> FALSE, Tags |-> executeHTMLTmpl(pd)]]
       ELSE IF config.FS = "nil"
       THEN [panic |-> TRUE, err |-> "", accesses |-> <<>>, fragment |-> NoFragment]
       ELSE LET path == IF config.ViteManifest = "" THEN DefaultManifestPath
                        ELSE config.ViteManifest
            IN IF ~ManifestOpens(state, path)
               THEN [panic |-> FALSE, err |-> "vite: open manifest",
                     accesses |-> <<OpenAccess(path)>>, fragment |-> NoFragment]
               ELSE LET r == ParseManifest(state, content) IN
                    IF r.err
                    THEN [panic |-> FALSE, err |-> "vite: parse manifest",
                          accesses |-> <<OpenAccess(path), ParseAccess(path)>>,
                          fragment |-> NoFragment]
                    ELSE LET m == r.m
                             chunk == IF pd0.ViteEntry = "" THEN GetEntryPoint(m, order)
                                      ELSE findEntry(m, GetEntryPoints(m, order), pd0.ViteEntry)
                             src == ChunkSrc(m, chunk)
                         IN IF chunk.nil
                            THEN [panic |-> FALSE,
                                  err |-> "vite: unable to find chunk for entry point",
                                  accesses |-> <<OpenAccess(path), ParseAccess(path)>>,
                                  fragment |-> NoFragment]
                            ELSE [panic |-> FALSE, err |-> "",
                                  accesses |-> <<OpenAccess(path), ParseAccess(path)>>,
                                  fragment |->
                                    [nil |-> FALSE,
                                     Tags |-> executeHTMLTmpl(
                                        [pd0 EXCEPT
                                           !.StyleSheets =
                                              GenerateCSS(m, src, config.AssetsURLPrefix),
                                           !.Modules =
                                              GenerateModules(m, src, config.AssetsURLPrefix),
                                           !.PreloadModules =
                                              GeneratePreloadModules(m, src, config.AssetsURLPrefix)])]]

----------------------------------------------------------------------------
(* The inputs of the handler specification. *)

\* Number of templates registered on a handler, the fallback not counted.
MaxTemplates == 1

\* A manifest with two entries and a chunk that is no entry.
ServedManifest ==
    ( "views/foo.js" :> Chunk("assets/foo.js", "views/foo.js", <<"assets/foo.css">>, TRUE,
                              <<"_shared.js">>, <<>>) )
    @@ ( "views/bar.js" :> Chunk("assets/bar.js", "views/bar.js", <<>>, TRUE,
                                 <<"_shared.js">>, <<>>) )
    @@ ( "_shared.js" :> Chunk("assets/shared.js", "_shared.js", <<"assets/shared.css">>, FALSE,
                               <<>>, <<>>) )

ViteEntries == {"", "views/foo.js", "_shared.js", "missing.js"}

\* Config.ViteManifest: unset, or the path of no file.
ManifestPaths == {"", "missing.json"}

\* Configurations: production ones, where the entry matters, development
\* ones, where the public directory matters, and ones without filesystem.
ProdConfigs ==
    [FS : {"fs"}, PublicFS : {"nil", "given"}, SubOK : {TRUE}, IsDev : {FALSE},
     ViteEntry : ViteEntries, ViteURL : {""}, ViteManifest : ManifestPaths,
     ViteTemplate : {0}, AssetsURLPrefix : {""}]

DevConfigs ==
    [FS : {"fs"}, PublicFS : {"nil", "given"}, SubOK : BOOLEAN, IsDev : {TRUE},
     ViteEntry : {"", "views/foo.js"}, ViteURL : {""}, ViteManifest : {""},
     ViteTemplate : {0, Vanilla}, AssetsURLPrefix : {""}]

NilFSConfigs ==
    [FS : {"nil"}, PublicFS : {"nil"}, SubOK : {TRUE}, IsDev : BOOLEAN,
     ViteEntry : {""}, ViteURL : {""}, ViteManifest : {""},
     ViteTemplate : {0}, AssetsURLPrefix : {""}]

Configs == ProdConfigs \cup DevConfigs \cup NilFSConfigs

\* Configurations of HTMLFragment: with a filesystem in both modes, with a
\* manifest path that names no file, and without filesystem.
FragmentConfigs ==
    [FS : {"fs"}, PublicFS : {"nil"}, SubOK : {TRUE}, IsDev : BOOLEAN,
     ViteEntry : ViteEntries, ViteURL : {""}, ViteManifest : {""},
     ViteTemplate : {0}, AssetsURLPrefix : {""}]
    \cup [FS : {"fs"}, PublicFS : {"nil"}, SubOK : {TRUE}, IsDev : {FALSE},
          ViteEntry : {""}, ViteURL : {""}, ViteManifest : ManifestPaths \ {""},
          ViteTemplate : {0}, AssetsURLPrefix : {""}]
    \cup NilFSConfigs

TemplateNames == { IndexName, <<"/", "page">>, <<"page">>, <<"page", ".html">>,
                   fallbackTemplateName }
TemplateTexts == { "T1", FailingText }

RequestPaths ==
    { <<"/">>, <<"/", "index", ".html">>, <<"/", "..", "/", "/", "index", ".html">>,
      <<"/", "page">>, <<"/", "page", "/">>, <<"/", "a", ".txt">>, <<"/", "p", ".txt">>,
      <<"/", "missing">> }

Requests == [path : RequestPaths, md : {"", "request metadata"}, scripts : {""}]

\* The orders in which the handler's manifest may be iterated.
Orders(m) == IterationOrders(DOMAIN m)

----------------------------------------------------------------------------
(* The handler's operations. *)

Init ==
    /\ \/ mfile = "ok" /\ manifest = ServedManifest
       \/ mfile \in {"malformed", "absent"} /\ manifest = EmptyManifest
    /\ h = NoHandler
    /\ call = NoCall
    /\ serving = NoServing

NewHandlerOf(configs) ==
    \E config \in configs :
        LET r == NewHandlerResult(config, mfile, manifest) IN
        /\ ~h.constructed
        /\ h' = r.h
        /\ call' = [op |-> "NewHandler", config |-> config, err |-> r.err,
                    accesses |-> r.accesses]
        /\ UNCHANGED <<manifest, mfile, serving>>

NewHandler == NewHandlerOf(Configs)

\* Variant: setting the metadata builds the handler anew, in development
\* mode and without manifest.
SetDefaultMetadata_ResetsMode ==
    \E md \in {"", "default metadata"} :
        /\ h.constructed
        /\ h' = [h EXCEPT !.defaultMetadata = md, !.isDev = TRUE,
                          !.hasManifest = FALSE, !.manifest = EmptyManifest]
        /\ call' = [op |-> "SetDefaultMetadata", md |-> md]
        /\ UNCHANGED <<manifest, mfile, serving>>

SetDefaultMetadata ==
    \E md \in {"", "default metadata"} :
        /\ h.constructed
        /\ h' = [h EXCEPT !.defaultMetadata = md]
        /\ call' = [op |-> "SetDefaultMetadata", md |-> md]
        /\ UNCHANGED <<manifest, mfile, serving>>

\* Variant: a second registration under a name replaces the first.
RegisterTemplate_Overwrites ==
    \E name \in TemplateNames, text \in TemplateTexts :
        /\ h.constructed
        /\ IF name \in DOMAIN h.templates
           THEN /\ call' = [op |-> "RegisterTemplate", name |-> name, text |-> text,
                            panic |-> TRUE]
                /\ h' = [h EXCEPT !.templates[name] = text]
           ELSE /\ Cardinality(DOMAIN h.templates) <= MaxTemplates
                /\ call' = [op |-> "RegisterTemplate", name |-> name, text |-> text,
                            panic |-> FALSE]
                /\ h' = [h EXCEPT !.templates = @ @@ (name :> text)]
        /\ UNCHANGED <<manifest, mfile, serving>>

\* h.RegisterTemplate(name, text), for at most max templates besides the
\* fallback.
RegisterTemplateOf(names, texts, max) ==
    \E name \in names, text \in texts :
        /\ h.constructed
        /\ IF name \in DOMAIN h.templates
           THEN /\ call' = [op |-> "RegisterTemplate", name |-> name, text |-> text,
                            panic |-> TRUE]
                /\ h' = h
           ELSE /\ Cardinality(DOMAIN h.templates) <= max
                /\ call' = [op |-> "RegisterTemplate", name |-> name, text |-> text,
                            panic |-> FALSE]
                /\ h' = [h EXCEPT !.templates = @ @@ (name :> text)]
        /\ UNCHANGED <<manifest, mfile, serving>>

RegisterTemplate == RegisterTemplateOf(TemplateNames, TemplateTexts, MaxTemplates)

\* Variant: the metadata of a request is kept as the default of the handler.
ServeHTTP_KeepsMetadata ==
    \E req \in Requests :
        /\ h.constructed
        /\ \E resp \in { ServeHTTPResponse(h, req, order) : order \in Orders(h.manifest) } :
              call' = [op |-> "ServeHTTP", req |-> req, path |-> Clean(req.path),
                       resp |-> resp, body |-> Body(resp)]
        /\ h' = IF req.md # "" THEN [h EXCEPT !.defaultMetadata = req.md] ELSE h
        /\ UNCHANGED <<manifest, mfile, serving>>

ServeHTTPOf(requests) ==
    \E req \in requests :
        /\ h.constructed
        /\ \E resp \in { ServeHTTPResponse(h, req, order) : order \in Orders(h.manifest) } :
              call' = [op |-> "ServeHTTP", req |-> req, path |-> Clean(req.path),
                       resp |-> resp, body |-> Body(resp)]
        /\ UNCHANGED <<manifest, mfile, h, serving>>

ServeHTTP == ServeHTTPOf(Requests)

HTMLFragmentOf(configs) ==
    \E config \in configs :
        /\ \E result \in { HTMLFragmentResult(config, mfile, manifest, order) :
                               order \in Orders(manifest) } :
              call' = [op |-> "HTMLFragment", config |-> config, result |-> result]
        /\ UNCHANGED <<manifest, mfile, h, serving>>

HTMLFragment == HTMLFragmentOf(FragmentConfigs)

Next ==
    \/ NewHandler
    \/ SetDefaultMetadata
    \/ RegisterTemplate
    \/ ServeHTTP
    \/ HTMLFragment

Spec == Init /\ [][Next]_vars

----------------------------------------------------------------------------
(* ServeHTTP step by step.  net/http runs every request in a goroutine of *)
(* its own; the invocations share the handler and nothing else.  Each     *)
(* step below reads the handler as it is when the step is taken.          *)

\* Number of goroutines serving at a time.
MaxServing == 2

Goroutines == 1..MaxServing

NoRequest == [path |-> <<>>, md |-> "", scripts |-> ""]
NoResponse == Response("none", <<>>, "", NoPage)

\* A goroutine that serves no request.  `seen` is history only: the
\* templates that the handler held when the goroutine took its request.
Idle ==
    [pc |-> "idle", req |-> NoRequest, path |-> <<>>, page |-> NoPage,
     tmpl |-> <<>>, text |-> "", resp |-> NoResponse, seen |-> <<>>]

\* The handlers that serve: constructed from one of these configurations,
\* with or without a template of the page.
ServingConfigs ==
    { c \in ProdConfigs : c.PublicFS = "nil" /\ c.ViteManifest = ""
                          /\ c.ViteEntry \in {"", "missing.js"} }
    \cup { c \in DevConfigs : c.SubOK /\ c.ViteEntry = "" /\ c.ViteTemplate = 0 }

ServingTemplates ==
    { fallbackTemplateName :> fallbackHTML,
      (fallbackTemplateName :> fallbackHTML) @@ (<<"/", "page">> :> "T1"),
      (fallbackTemplateName :> fallbackHTML) @@ (IndexName :> FailingText) }

ServingRequests ==
    { r \in Requests : r.path \in { <<"/">>, <<"/", "page">>, <<"/", "a", ".txt">>,
                                    <<"/", "missing">> }
                       /\ (r.md # "" => r.path = <<"/">>) }

InitServe ==
    /\ mfile = "ok"
    /\ manifest = ServedManifest
    /\ \E config \in ServingConfigs, templates \in ServingTemplates :
          h = [NewHandlerResult(config, mfile, manifest).h EXCEPT !.templates = templates]
    /\ call = NoCall
    /\ serving = [g \in Goroutines |-> Idle]

\* Variant: the page is a field of the handler, which the goroutines that
\* render share; the one that came first to its template wrote it last.
ExecutedPage_SharedField(sv, g) ==
    LET rendering == { k \in DOMAIN sv : sv[k].pc = "execute" }
    IN sv[CHOOSE k \in rendering : \A j \in rendering : k <= j].page

\* The page that goroutine g executes its template on: its own variable.
ExecutedPage(sv, g) == sv[g].page

\* The goroutine is done, with this response.
Done(sv, g, resp) == [sv EXCEPT ![g].pc = "done", ![g].resp = resp]

\* path := path.Clean(r.URL.Path)
ServeBegin(g) ==
    /\ serving[g].pc \in {"idle", "done"}
    /\ \E req \in ServingRequests :
          serving' = [serving EXCEPT ![g] =
                         [Idle EXCEPT !.pc = "public", !.req = req, !.path = Clean(req.path),
                                      !.seen = h.templates]]
    /\ UNCHANGED <<manifest, mfile, h, call>>

\* if h.isDev && h.pubFS != nil && h.pubHandler != nil && !isIndexPath { ... }
ServePublic(g) ==
    /\ serving[g].pc = "public"
    /\ serving' =
          IF /\ h.isDev /\ h.pub # "none"
             /\ ~(serving[g].path = RootPath \/ serving[g].path = IndexPath)
             /\ Opens(PubFiles(h), serving[g].path)
          THEN Done(serving, g, Response("public", <<>>, "", NoPage))
          ELSE [serving EXCEPT ![g].pc = "dispatch"]
    /\ UNCHANGED <<manifest, mfile, h, call>>

\* if isIndexPath { renderPage }; if _, ok := h.templates[path]; ok { renderPage }
ServeDispatch(g) ==
    /\ serving[g].pc = "dispatch"
    /\ serving' =
          IF serving[g].path = RootPath \/ serving[g].path = IndexPath
          THEN [serving EXCEPT ![g].pc = "render"]
          ELSE IF serving[g].path \in DOMAIN h.templates
          THEN [serving EXCEPT ![g].pc = "render"]
          ELSE [serving EXCEPT ![g].pc = "mainfs"]
    /\ UNCHANGED <<manifest, mfile, h, call>>

\* if _, err := h.fsFS.Open(path); err != nil { http.NotFound }; h.fsHandler.ServeHTTP
ServeMainFS(g) ==
    /\ serving[g].pc = "mainfs"
    /\ serving' =
          IF ~Opens(MainFiles, serving[g].path)
          THEN Done(serving, g, Response("notfound", <<>>, "", NoPage))
          ELSE Done(serving, g, Response("static", <<>>, "", NoPage))
    /\ UNCHANGED <<manifest, mfile, h, call>>

\* renderPage: page := pageData{...}, metadata and scripts.
RenderStart(g) ==
    /\ serving[g].pc = "render"
    /\ LET req == serving[g].req
           md == IF req.md # "" THEN req.md ELSE h.defaultMetadata
       IN serving' = [serving EXCEPT
                         ![g].pc = "tags",
                         ![g].page = [NoPage EXCEPT !.IsDev = h.isDev,
                                                    !.ViteEntry = h.viteEntry,
                                                    !.ViteURL = h.viteURL,
                                                    !.Metadata = md,
                                                    !.Scripts = req.scripts]]
    /\ UNCHANGED <<manifest, mfile, h, call>>

\* renderPage: the preamble in development mode; the entry and its tags in
\* production mode, or the 500 response when no entry is found.
RenderTags(g) ==
    /\ serving[g].pc = "tags"
    /\ IF h.isDev
       THEN serving' =
               IF h.viteTemplate < 1
               THEN [serving EXCEPT ![g].pc = "lookup",
                                    ![g].page.PluginReactPreamble = Preamble(React, h.viteURL)]
               ELSE IF RequiresPreamble(h.viteTemplate)
               THEN [serving EXCEPT ![g].pc = "lookup",
                                    ![g].page.PluginReactPreamble =
                                        Preamble(h.viteTemplate, h.viteURL)]
               ELSE [serving EXCEPT ![g].pc = "lookup"]
       ELSE \E chunk \in { IF serving[g].page.ViteEntry = ""
                           THEN GetEntryPoint(h.manifest, order)
                           ELSE findEntry(h.manifest, GetEntryPoints(h.manifest, order),
                                          serving[g].page.ViteEntry) :
                           order \in Orders(h.manifest) } :
               serving' =
                  IF chunk.nil
                  THEN Done(serving, g, Response("error", <<>>, "", NoPage))
                  ELSE LET src == ChunkSrc(h.manifest, chunk) IN
                       [serving EXCEPT
                           ![g].pc = "lookup",
                           ![g].page.StyleSheets = GenerateCSS(h.manifest, src, ""),
                           ![g].page.Modules = GenerateModules(h.manifest, src, ""),
                           ![g].page.PreloadModules =
                               GeneratePreloadModules(h.manifest, src, "")]
    /\ UNCHANGED <<manifest, mfile, h, call>>

\* renderPage: tmplName, and the template found for it.
RenderLookup(g) ==
    /\ serving[g].pc = "lookup"
    /\ LET tmplName == IF serving[g].path = RootPath THEN IndexName ELSE serving[g].path
           tmpl == findTemplate(h.templates, tmplName)
       IN serving' = [serving EXCEPT ![g].pc = "execute", ![g].tmpl = tmpl,
                                     ![g].text = h.templates[tmpl]]
    /\ UNCHANGED <<manifest, mfile, h, call>>

\* renderPage: tmpl.Execute(w, page)
RenderExecute(g) ==
    /\ serving[g].pc = "execute"
    /\ serving' =
          IF ExecFails(serving[g].text)
          THEN Done(serving, g, Response("error", serving[g].tmpl, serving[g].text,
                                         ExecutedPage(serving, g)))
          ELSE Done(serving, g, Response("page", serving[g].tmpl, serving[g].text,
                                         ExecutedPage(serving, g)))
    /\ UNCHANGED <<manifest, mfile, h, call>>

NextServe ==
    \E g \in Goroutines :
        \/ ServeBegin(g)
        \/ ServePublic(g)
        \/ ServeDispatch(g)
        \/ ServeMainFS(g)
        \/ RenderStart(g)
        \/ RenderTags(g)
        \/ RenderLookup(g)
        \/ RenderExecute(g)

SpecServe == InitServe /\ [][NextServe]_vars

----------------------------------------------------------------------------
(* The tags of production pages, over manifests of several shapes and     *)
(* over the asset URL prefixes.                                            *)

\* The manifest of the tests, without the chunk that nothing refers to.
ExampleManifest ==
    ( "views/foo.js" :> Chunk("assets/foo.js", "views/foo.js", <<"assets/foo.css">>, TRUE,
                              <<"_shared.js">>, <<>>) )
    @@ ( "views/bar.js" :> Chunk("assets/bar.js", "views/bar.js", <<>>, TRUE,
                                 <<"_shared.js">>, <<"baz.js">>) )
    @@ ( "_shared.js" :> Chunk("assets/shared.js", "", <<"assets/shared.css">>, FALSE,
                               <<>>, <<>>) )
    @@ ( "baz.js" :> Chunk("assets/baz.js", "baz.js", <<>>, FALSE, <<>>, <<>>) )

\* Entries of which one has stylesheets only, one a file only, one nothing.
SparseManifest ==
    ( "style.js" :> Chunk("", "style.js", <<"assets/style.css">>, TRUE, <<>>, <<>>) )
    @@ ( "only.js" :> Chunk("assets/only.js", "only.js", <<>>, TRUE, <<>>, <<>>) )
    @@ ( "bare.js" :> Chunk("", "bare.js", <<>>, TRUE, <<>>, <<>>) )

TagManifests == { ExampleManifest, SparseManifest }

TagEntries == { "", "views/foo.js", "views/bar.js", "style.js", "only.js", "bare.js" }

TagConfigs ==
    [FS : {"fs"}, PublicFS : {"nil"}, SubOK : {TRUE}, IsDev : {FALSE},
     ViteEntry : TagEntries, ViteURL : {""}, ViteManifest : {""},
     ViteTemplate : {0}, AssetsURLPrefix : Prefixes]

TagRequests == [path : { <<"/">> }, md : {"", "request metadata"}, scripts : {"", "scripts"}]

InitTags ==
    /\ mfile = "ok"
    /\ \E m \in TagManifests : manifest = m
    /\ h = NoHandler
    /\ call = NoCall
    /\ serving = NoServing

NextTags ==
    \/ NewHandlerOf(TagConfigs)
    \/ ServeHTTPOf(TagRequests)
    \/ HTMLFragmentOf(TagConfigs)

SpecTags == InitTags /\ [][NextTags]_vars

----------------------------------------------------------------------------
(* Development and production side by side, over every scaffolding and   *)
(* over the URLs and entries of the Vite server.                          *)

\* The values of Config.ViteTemplate: unset (0), a value below it, the
\* templates, and a value past the last.
Scaffoldings == (0 - 1) .. (None + 1)

ServerURLs == {"", "http://vite:3000", TrailingSlashURL, MalformedURL}
ServerEntries == {"", "src/app.tsx", LeadingSlashEntry}

\* The configurations of HTMLFragment: every scaffolding in both modes,
\* and every URL and entry in development mode.
ModeFragmentConfigs ==
    [FS : {"fs"}, PublicFS : {"nil"}, SubOK : {TRUE}, IsDev : BOOLEAN,
     ViteEntry : {""}, ViteURL : {""}, ViteManifest : {""},
     ViteTemplate : Scaffoldings, AssetsURLPrefix : {""}]
    \cup [FS : {"fs"}, PublicFS : {"nil"}, SubOK : {TRUE}, IsDev : {TRUE},
          ViteEntry : ServerEntries, ViteURL : ServerURLs, ViteManifest : {""},
          ViteTemplate : {0, Vanilla}, AssetsURLPrefix : {""}]

\* The configurations of the handler.
ModeHandlerConfigs ==
    [FS : {"fs"}, PublicFS : {"nil"}, SubOK : {TRUE}, IsDev : BOOLEAN,
     ViteEntry : {""}, ViteURL : {""}, ViteManifest : {""},
     ViteTemplate : Scaffoldings, AssetsURLPrefix : {""}]

ModeRequests == [path : { <<"/">>, <<"/", "a", ".txt">> }, md : {""}, scripts : {""}]

InitModes ==
    /\ mfile = "ok"
    /\ manifest = ServedManifest
    /\ h = NoHandler
    /\ call = NoCall
    /\ serving = NoServing

NextModes ==
    \/ NewHandlerOf(ModeHandlerConfigs)
    \/ ServeHTTPOf(ModeRequests)
    \/ HTMLFragmentOf(ModeFragmentConfigs)

SpecModes == InitModes /\ [][NextModes]_vars

----------------------------------------------------------------------------
(* Entry resolution over manifests of several shapes: keys that are and   *)
(* are not the src of their chunk, entries without src, entries that      *)
(* share a src, no entry at all.                                          *)

\* An entry whose key is not its src, and no chunk under that src.
AliasManifest ==
    ( "main" :> Chunk("assets/main.js", "src/main.js", <<"assets/main.css">>, TRUE,
                      <<"_dep.js">>, <<>>) )
    @@ ( "_dep.js" :> Chunk("assets/dep.js", "", <<"assets/dep.css">>, FALSE, <<>>, <<>>) )

\* An entry whose key is not its src, and another chunk under that src.
CrossedManifest ==
    ( "main" :> Chunk("assets/main.js", "app.js", <<"assets/main.css">>, TRUE, <<>>, <<>>) )
    @@ ( "app.js" :> Chunk("assets/legacy.js", "legacy.js", <<"assets/legacy.css">>, FALSE,
                           <<>>, <<>>) )

\* One entry, without src.
UnnamedManifest ==
    ( "index.html" :> Chunk("assets/index.js", "", <<"assets/index.css">>, TRUE, <<>>, <<>>) )

\* Two entries with the same src, one of them under that src.
SharedSrcManifest ==
    ( "app.js" :> Chunk("assets/app.js", "app.js", <<"assets/app.css">>, TRUE, <<>>, <<>>) )
    @@ ( "alt" :> Chunk("assets/alt.js", "app.js", <<"assets/alt.css">>, TRUE, <<>>, <<>>) )
    @@ ( "views/foo.js" :> Chunk("assets/foo.js", "views/foo.js", <<>>, TRUE, <<"app.js">>, <<>>) )

\* No entry.
NoEntryManifest ==
    ( "_dep.js" :> Chunk("assets/dep.js", "", <<"assets/dep.css">>, FALSE, <<>>, <<>>) )

EntryManifests ==
    { ExampleManifest, AliasManifest, CrossedManifest, UnnamedManifest, SharedSrcManifest,
      NoEntryManifest, EmptyManifest }

EntryIdentifiers == { "", "views/foo.js", "src/main.js", "app.js" }

EntryConfigs ==
    [FS : {"fs"}, PublicFS : {"nil"}, SubOK : {TRUE}, IsDev : {FALSE},
     ViteEntry : EntryIdentifiers, ViteURL : {""}, ViteManifest : {""},
     ViteTemplate : {0}, AssetsURLPrefix : {""}]

EntryRequests == [path : { <<"/">> }, md : {""}, scripts : {""}]

InitEntries ==
    /\ mfile = "ok"
    /\ \E m \in EntryManifests : manifest = m
    /\ h = NoHandler
    /\ call = NoCall
    /\ serving = NoServing

\* m.GetEntryPoints() on the parsed manifest.
CallGetEntryPoints ==
    /\ \E entries \in { GetEntryPoints(manifest, order) : order \in Orders(manifest) } :
          call' = [op |-> "GetEntryPoints", entries |-> entries]
    /\ UNCHANGED <<manifest, mfile, h, serving>>

\* m.GetEntryPoint() on the parsed manifest.
CallGetEntryPoint ==
    /\ \E chunk \in { GetEntryPoint(manifest, order) : order \in Orders(manifest) } :
          call' = [op |-> "GetEntryPoint", chunk |-> chunk]
    /\ UNCHANGED <<manifest, mfile, h, serving>>

NextEntries ==
    \/ CallGetEntryPoints
    \/ CallGetEntryPoint
    \/ NewHandlerOf(EntryConfigs)
    \/ ServeHTTPOf(EntryRequests)
    \/ HTMLFragmentOf(EntryConfigs)

SpecEntries == InitEntries /\ [][NextEntries]_vars

----------------------------------------------------------------------------
(* Template lookup, over names registered with and without the leading    *)
(* slash and the .html suffix.                                            *)

\* Number of templates registered on a handler, the fallback not counted.
MaxRegistered == 2

LookupNames ==
    { IndexName, <<"index">>, <<"/", "index", ".html">>,
      <<"/", "page">>, <<"page">>, <<"page", ".html">>, <<"/", "page", ".html">>,
      fallbackTemplateName }

LookupTexts == { "T1", FailingText }

LookupConfigs ==
    [FS : {"fs"}, PublicFS : {"nil"}, SubOK : {TRUE}, IsDev : BOOLEAN,
     ViteEntry : {"", "missing.js"}, ViteURL : {""}, ViteManifest : {""},
     ViteTemplate : {0}, AssetsURLPrefix : {""}]

LookupRequests ==
    [path : { <<"/">>, <<"/", "index", ".html">>, <<"/", "page">>, <<"/", "page", ".html">>,
              <<"/", "page", "/">>, <<"/", "a", ".txt">> },
     md : {""}, scripts : {""}]

InitLookup ==
    /\ mfile = "ok"
    /\ manifest = ServedManifest
    /\ h = NoHandler
    /\ call = NoCall
    /\ serving = NoServing

NextLookup ==
    \/ NewHandlerOf(LookupConfigs)
    \/ RegisterTemplateOf(LookupNames, LookupTexts, MaxRegistered)
    \/ ServeHTTPOf(LookupRequests)

SpecLookup == InitLookup /\ [][NextLookup]_vars

----------------------------------------------------------------------------
(* Registration while the handler serves.  Nothing in the handler tells   *)
(* a RegisterTemplate call whether a request was served: the call is      *)
(* taken between any two steps of the goroutines.  A write to the map of  *)
(* templates that meets a read of it is a data race, which the runtime    *)
(* may end with a fatal error.                                            *)

RegisterNames == { <<"/", "page">>, IndexName }
RegisterTexts == { "T1" }

RegisterConfigs ==
    { c \in ProdConfigs : c.PublicFS = "nil" /\ c.ViteManifest = "" /\ c.ViteEntry = "" }

InitRegister ==
    /\ mfile = "ok"
    /\ manifest = ServedManifest
    /\ \E config \in RegisterConfigs : h = NewHandlerResult(config, mfile, manifest).h
    /\ call = NoCall
    /\ serving = [g \in Goroutines |-> Idle]

\* The goroutine reads h.templates in its next step.
ReadsTemplates(g) == serving[g].pc \in {"dispatch", "lookup"}

\* h.RegisterTemplate(name, text) at the time a goroutine reads the map:
\* "fatal error: concurrent map read and map write" ends the process.
RegisterTemplateFault ==
    \E name \in RegisterNames, text \in RegisterTexts, g \in Goroutines :
        /\ name \notin DOMAIN h.templates
        /\ ReadsTemplates(g)
        /\ serving' = [k \in Goroutines |-> [serving[k] EXCEPT !.pc = "fatal"]]
        /\ call' = [op |-> "RegisterTemplate", name |-> name, text |-> text, panic |-> TRUE]
        /\ UNCHANGED <<manifest, mfile, h>>

NextRegister ==
    \/ \E g \in Goroutines :
          \/ ServeBegin(g)
          \/ ServePublic(g)
          \/ ServeDispatch(g)
          \/ ServeMainFS(g)
          \/ RenderStart(g)
          \/ RenderTags(g)
          \/ RenderLookup(g)
          \/ RenderExecute(g)
    \/ RegisterTemplateOf(RegisterNames, RegisterTexts, MaxRegistered)
    \/ RegisterTemplateFault

SpecRegister == InitRegister /\ [][NextRegister]_vars

----------------------------------------------------------------------------
(* Reference notions for the generator claims, defined without the        *)
(* generator: reachability as a least fixed point, pre-order as a         *)
(* worklist.                                                               *)

\* Keys one `imports` edge away from a key of S.
ImportsOf(m, S) == UNION { SeqToSet(m[k].Imports) : k \in S \cap DOMAIN m }
\* Keys one `imports` or `dynamicImports` edge away from a key of S.
AnyImportsOf(m, S) ==
    UNION { SeqToSet(m[k].Imports) \cup SeqToSet(m[k].DynamicImports) : k \in S \cap DOMAIN m }

RECURSIVE ImportClosure(_, _)
ImportClosure(m, S) ==
    LET T == S \cup ImportsOf(m, S) IN IF T = S THEN S ELSE ImportClosure(m, T)

RECURSIVE AnyClosure(_, _)
AnyClosure(m, S) ==
    LET T == S \cup AnyImportsOf(m, S) IN IF T = S THEN S ELSE AnyClosure(m, T)

\* The chunks reachable from root over `imports` edges, root included.
ReachableChunks(m, root) == ImportClosure(m, {root}) \cap DOMAIN m

\* The chunks reachable from root only if `dynamicImports` edges are used.
DynamicOnlyChunks(m, root) == (AnyClosure(m, {root}) \cap DOMAIN m) \ ReachableChunks(m, root)

\* Pre-order depth-first order of the chunks, by a worklist: take the first
\* key of the list; a key taken before, or absent, is dropped; otherwise it
\* is the next chunk of the order and its imports go to the front.
RECURSIVE PreOrder(_, _, _, _)
PreOrder(m, work, done, acc) ==
    IF work = <<>> THEN acc
    ELSE LET k == Head(work) IN
         IF k \in done \/ k \notin DOMAIN m
         THEN PreOrder(m, Tail(work), done \cup {k}, acc)
         ELSE PreOrder(m, m[k].Imports \o Tail(work), done \cup {k}, Append(acc, k))

PreOrderFrom(m, root) == PreOrder(m, <<root>>, {}, <<>>)

RECURSIVE Flatten(_)
Flatten(ss) == IF ss = <<>> THEN <<>> ELSE Head(ss) \o Flatten(Tail(ss))

\* The stylesheet links of one chunk, in the order of its css list.
ChunkCSSLinks(m, k, prefix) ==
    [i \in 1..Len(m[k].CSS) |-> StylesheetLink(prefix, m[k].CSS[i])]

\* The modulepreload link of one chunk: none when it has no file.
ChunkPreloadLinks(m, k, prefix) ==
    IF m[k].File = "" THEN <<>> ELSE <<ModulePreloadLink(prefix, m[k].File)>>

\* The manifest with the keys that it does not hold removed from every
\* imports list.
PruneImports(m) ==
    [k \in DOMAIN m |->
        LET Present(i) == i \in DOMAIN m
        IN [m[k] EXCEPT !.Imports = SelectSeq(@, Present)]]

IsCSSCall == call.op = "GenerateCSS"
IsPreloadCall == call.op = "GeneratePreloadModules"
IsModulesCall == call.op = "GenerateModules"

----------------------------------------------------------------------------
(* C1: GenerateCSS emits the stylesheet links in pre-order depth-first    *)
(* order over imports: the root chunk's own css entries first, in list    *)
(* order, then each import's subtree in imports order; a chunk already    *)
(* visited contributes nothing the second time.                           *)
C1_CSSPreOrder ==
    IsCSSCall =>
        LET order == PreOrderFrom(manifest, call.name)
            own == IF call.name \in DOMAIN manifest
                   THEN ChunkCSSLinks(manifest, call.name, call.prefix) ELSE <<>>
        IN /\ call.out = Flatten([i \in 1..Len(order) |->
                                    ChunkCSSLinks(manifest, order[i], call.prefix)])
           /\ Len(call.out) >= Len(own)
           /\ SubSeq(call.out, 1, Len(own)) = own

\* A call on a manifest where chunk c is imported by the root and, before
\* that, by the root's first import.
C1_Witness ==
    /\ IsCSSCall
    /\ call.name = "a"
    /\ manifest["a"].Imports = <<"b", "c">>
    /\ manifest["b"].Imports = <<"c">>
    /\ call.out = << StylesheetLink(call.prefix, "a.css"),
                     StylesheetLink(call.prefix, "b.css"),
                     StylesheetLink(call.prefix, "c.css") >>

(* C2: GeneratePreloadModules emits exactly one modulepreload link per    *)
(* chunk reachable over imports that has a non-empty file, the root       *)
(* included, in pre-order; a reachable chunk with an empty file emits no  *)
(* link but its imports are still traversed.                               *)
C2_PreloadPerChunk ==
    IsPreloadCall =>
        LET order == PreOrderFrom(manifest, call.name)
            withFile == { k \in ReachableChunks(manifest, call.name) : manifest[k].File # "" }
        IN /\ call.out = Flatten([i \in 1..Len(order) |->
                                    ChunkPreloadLinks(manifest, order[i], call.prefix)])
           /\ Len(call.out) = Cardinality(withFile)
           /\ SeqToSet(call.from) = withFile
           /\ NoDuplicates(call.from)

\* The root has no file and imports b, which has one: b's link is emitted.
C2_Witness ==
    /\ IsPreloadCall
    /\ call.name = "a"
    /\ manifest["a"].File = ""
    /\ manifest["a"].Imports = <<"b">>
    /\ manifest["b"].File # ""
    /\ call.out = <<ModulePreloadLink(call.prefix, manifest["b"].File)>>

(* C3: on every manifest, with cycles or diamonds in the imports graph,   *)
(* GenerateCSS and GeneratePreloadModules end and process each chunk      *)
(* reachable from the root over imports exactly once.                      *)
C3_EachReachableChunkOnce ==
    (IsCSSCall \/ IsPreloadCall) =>
        /\ NoDuplicates(call.visits)
        /\ SeqToSet(call.visits) = ReachableChunks(manifest, call.name)
        /\ Len(call.visits) <= Cardinality(DOMAIN manifest)

\* A call on the cycle a -> b -> c -> a.
C3_Witness ==
    /\ IsPreloadCall
    /\ call.name = "a"
    /\ manifest["a"].Imports = <<"b">>
    /\ manifest["b"].Imports = <<"c">>
    /\ manifest["c"].Imports = <<"a">>
    /\ call.visits = <<"a", "b", "c">>

(* C4: GenerateModules never emits more than one module script tag:       *)
(* exactly one, for the root chunk's file, when the root key is in the    *)
(* manifest and its file is non-empty, and nothing otherwise; never a     *)
(* tag for an imported chunk.                                              *)
C4_OneModuleScript ==
    IsModulesCall =>
        LET hasFile == call.name \in DOMAIN manifest /\ manifest[call.name].File # ""
        IN /\ Len(call.out) <= 1
           /\ hasFile => call.out = <<ModuleScript(call.prefix, manifest[call.name].File)>>
           /\ ~hasFile => call.out = <<>>

\* The root has a file and imports two chunks that have files too.
C4_Witness ==
    /\ IsModulesCall
    /\ call.name = "a"
    /\ manifest["a"].Imports = <<"b", "c">>
    /\ manifest["b"].File = "b.js"
    /\ call.out = <<ModuleScript(call.prefix, "a.js")>>

(* C5: a chunk reachable from the root only through dynamicImports        *)
(* contributes no stylesheet link to GenerateCSS and no modulepreload     *)
(* link to GeneratePreloadModules.                                         *)
C5_DynamicImportsExcluded ==
    (IsCSSCall \/ IsPreloadCall) =>
        /\ SeqToSet(call.from) \cap DynamicOnlyChunks(manifest, call.name) = {}
        /\ SeqToSet(call.visits) \cap DynamicOnlyChunks(manifest, call.name) = {}

\* The root imports b dynamically and c statically: only a and c have links.
C5_Witness ==
    /\ IsCSSCall
    /\ call.name = "a"
    /\ manifest["a"].DynamicImports = <<"b">>
    /\ manifest["a"].Imports = <<"c">>
    /\ DynamicOnlyChunks(manifest, "a") = {"b"}
    /\ call.out = << StylesheetLink(call.prefix, "a.css"),
                     StylesheetLink(call.prefix, "c.css") >>

(* C6: a key absent from the manifest, in an imports list or as the root, *)
(* is skipped without failing: the output is the one of the manifest with *)
(* the absent keys struck from the imports lists, so the other imports of *)
(* the same chunk, before and after it, still emit their tags in order.   *)
C6_MissingKeySkipped ==
    /\ IsCSSCall =>
          /\ call.out = GenerateCSS(PruneImports(manifest), call.name, call.prefix)
          /\ call.name \notin DOMAIN manifest => call.out = <<>>
    /\ IsPreloadCall =>
          /\ call.out = GeneratePreloadModules(PruneImports(manifest), call.name, call.prefix)
          /\ call.name \notin DOMAIN manifest => call.out = <<>>

\* The root imports b, the missing key, and c, in this order.
C6_Witness ==
    /\ IsCSSCall
    /\ call.name = "a"
    /\ manifest["a"].Imports = <<"b", MissingKey, "c">>
    /\ call.out = << StylesheetLink(call.prefix, "a.css"),
                     StylesheetLink(call.prefix, "b.css"),
                     StylesheetLink(call.prefix, "c.css") >>

----------------------------------------------------------------------------
(* Reference notions for the handler claims. *)

IsServeCall == call.op = "ServeHTTP"
IsFragmentCall == call.op = "HTMLFragment"
IsIndex(path) == path = <<"/">> \/ path = <<"/", "index", ".html">>

\* The manifest path that a configuration stands for.
ManifestPathOf(config) ==
    IF config.ViteManifest = "" THEN ".vite/manifest.json" ELSE config.ViteManifest

\* The manifest of the configuration cannot be opened: the manifest file is
\* absent, or the configured path is not the one of the manifest file.
CannotOpenManifest(config) ==
    mfile = "absent" \/ ManifestPathOf(config) # ".vite/manifest.json"

\* The identifier e is requested and is the src of no entry chunk of m.
UnmatchedEntry(m, e) ==
    /\ e # ""
    /\ \A k \in DOMAIN m : ~(m[k].IsEntry /\ m[k].Src = e)

\* No chunk of m is an entry.
HasNoEntry(m) == \A k \in DOMAIN m : ~m[k].IsEntry

\* The identifier e names a chunk of m that is no entry, by key or by src.
NamesNonEntryChunk(m, e) ==
    \E k \in DOMAIN m : ~m[k].IsEntry /\ (k = e \/ m[k].Src = e)

\* The response carries no tag of any chunk.
NoTags(resp) ==
    resp.page.StyleSheets = <<>> /\ resp.page.Modules = <<>> /\ resp.page.PreloadModules = <<>>

\* Step 1 of the dispatch serves the request from the public directory.
ServedByStepOne(hh, path) ==
    hh.isDev /\ hh.pub # "none" /\ ~IsIndex(path) /\ Opens(PubFiles(hh), path)

(* C7: in production mode an entry identifier that is the src of no entry *)
(* chunk always gives a resolution error and never the tags of another    *)
(* entry.  HTMLFragment on a readable manifest returns the error "unable  *)
(* to find chunk for entry point" and no fragment; NewHandler with the    *)
(* same configuration succeeds; the handler then answers every request    *)
(* that reaches the page render (index path, or a path with a template    *)
(* of its own) with an internal-error response without tags, and no       *)
(* request with a page.  Identifiers that are the key or src of a chunk   *)
(* that is no entry are among those checked.                              *)
C7_UnmatchedEntryIsResolutionError ==
    /\ ( /\ IsFragmentCall
         /\ ~call.config.IsDev /\ call.config.FS = "fs" /\ mfile = "ok"
         /\ ~CannotOpenManifest(call.config)
         /\ UnmatchedEntry(manifest, call.config.ViteEntry) )
       => /\ ~call.result.panic
          /\ call.result.err = "vite: unable to find chunk for entry point"
          /\ call.result.fragment = NoFragment
    /\ ( /\ call.op = "NewHandler"
         /\ ~call.config.IsDev /\ call.config.FS = "fs" /\ mfile = "ok"
         /\ ~CannotOpenManifest(call.config)
         /\ UnmatchedEntry(manifest, call.config.ViteEntry) )
       => /\ call.err = ""
          /\ h.constructed /\ ~h.isDev /\ h.viteEntry = call.config.ViteEntry
    /\ ( /\ IsServeCall
         /\ ~h.isDev
         /\ UnmatchedEntry(h.manifest, h.viteEntry) )
       => /\ call.resp.status # "page"
          /\ NoTags(call.resp)
          /\ (IsIndex(call.path) \/ call.path \in DOMAIN h.templates)
                => call.resp.status = "error"

C7_Witness ==
    /\ IsServeCall
    /\ ~h.isDev
    /\ h.viteEntry = "_shared.js"
    /\ NamesNonEntryChunk(h.manifest, h.viteEntry)
    /\ UnmatchedEntry(h.manifest, h.viteEntry)
    /\ call.path = <<"/", "page">>
    /\ call.path \in DOMAIN h.templates
    /\ call.resp.status = "error"

(* C8: step 1 of the dispatch comes before all others.  In development    *)
(* mode with a public directory in use, a request whose cleaned path is   *)
(* not the index path and opens in the public directory is served from    *)
(* the public directory, whether or not the path also opens in the main   *)
(* filesystem or has a template registered for it.                        *)
C8_PublicDirectoryFirst ==
    ( /\ IsServeCall
      /\ h.isDev
      /\ h.pub # "none"
      /\ ~IsIndex(call.path)
      /\ Opens(PubFiles(h), call.path) )
    => call.resp = Response("public", <<>>, "", NoPage)

C8_Witness ==
    /\ IsServeCall
    /\ h.isDev /\ h.pub = "given"
    /\ call.path = <<"/", "page">>
    /\ Opens(PubFiles(h), call.path)
    /\ Opens(MainFiles, call.path)
    /\ call.path \in DOMAIN h.templates
    /\ call.resp.status = "public"

(* C9: a request whose cleaned path is "/" or "/index.html" always ends   *)
(* in the page render, in both modes: the response is the rendered page   *)
(* or the render's internal-error response, never a file of the main      *)
(* filesystem or of the public directory, although both hold an           *)
(* index.html, and never not-found.                                       *)
C9_IndexPathAlwaysRenders ==
    (IsServeCall /\ IsIndex(call.path))
    => /\ call.resp.status \in {"page", "error"}
       /\ call.resp.status \notin {"public", "static", "notfound"}
       /\ call.resp.status = "error"
             => \/ ~h.isDev /\ h.viteEntry = "" /\ HasNoEntry(h.manifest)
                \/ ~h.isDev /\ UnmatchedEntry(h.manifest, h.viteEntry)
                \/ ExecFails(call.resp.text)

C9_Witness ==
    /\ IsServeCall
    /\ h.isDev /\ h.pub # "none"
    /\ call.req.path # call.path
    /\ call.path = <<"/", "index", ".html">>
    /\ Opens(PubFiles(h), call.path)
    /\ Opens(MainFiles, call.path)
    /\ call.resp.status = "page"

(* C10: a request that is not for the index path and that step 1 did not  *)
(* serve, with a template registered under exactly the cleaned path, goes *)
(* to the page render with that template, also when a file of that path   *)
(* is in the main filesystem: the response is never that file nor         *)
(* not-found; a page is the output of that very template; and the         *)
(* render's internal-error response comes from that template failing to  *)
(* execute or, in production mode, from entry resolution failing before   *)
(* any template is looked up.                                             *)
C10_ExactTemplateBeforeMainFS ==
    ( /\ IsServeCall
      /\ ~IsIndex(call.path)
      /\ ~ServedByStepOne(h, call.path)
      /\ call.path \in DOMAIN h.templates )
    => /\ call.resp.status \in {"page", "error"}
       /\ call.resp.status = "page"
             => call.resp.tmpl = call.path /\ call.resp.text = h.templates[call.path]
       /\ call.resp.status = "error"
             => \/ /\ call.resp.tmpl = call.path
                   /\ call.resp.text = h.templates[call.path]
                   /\ ExecFails(call.resp.text)
                \/ /\ ~h.isDev
                   /\ UnmatchedEntry(h.manifest, h.viteEntry) \/ HasNoEntry(h.manifest)

C10_Witness ==
    /\ IsServeCall
    /\ call.path = <<"/", "page">>
    /\ ~ServedByStepOne(h, call.path)
    /\ Opens(MainFiles, call.path)
    /\ call.path \in DOMAIN h.templates
    /\ call.resp.status = "page"
    /\ call.resp.tmpl = call.path
    /\ call.resp.text = "T1"

(* C11: a request that is not for the index path, that the public         *)
(* directory did not serve and that has no template registered under its  *)
(* exact cleaned path never renders a page: it is served as a static file *)
(* when the path opens in the main filesystem and answered with not-found *)
(* otherwise, whatever templates are registered under other names.        *)
C11_StaticFileOrNotFound ==
    ( /\ IsServeCall
      /\ ~IsIndex(call.path)
      /\ ~ServedByStepOne(h, call.path)
      /\ call.path \notin DOMAIN h.templates )
    => /\ call.resp.status \notin {"page", "error", "public"}
       /\ Opens(MainFiles, call.path) => call.resp = Response("static", <<>>, "", NoPage)
       /\ ~Opens(MainFiles, call.path) => call.resp = Response("notfound", <<>>, "", NoPage)

C11_Witness ==
    /\ IsServeCall
    /\ call.path = <<"/", "page">>
    /\ ~ServedByStepOne(h, call.path)
    /\ call.path \notin DOMAIN h.templates
    /\ <<"page">> \in DOMAIN h.templates
    /\ Opens(MainFiles, call.path)
    /\ call.resp.status = "static"

(* C12: RegisterTemplate with a name that is already registered panics    *)
(* and leaves the handler as it was: the template set is unchanged and    *)
(* the name still holds the text registered first, which is therefore the *)
(* one rendered afterwards.  A registration panics for no other reason.   *)
C12_DuplicateRegistrationPanics ==
    [][ (h.constructed /\ call'.op = "RegisterTemplate")
        => /\ call'.panic <=> call'.name \in DOMAIN h.templates
           /\ call'.panic
                 => /\ h' = h
                    /\ DOMAIN h'.templates = DOMAIN h.templates
                    /\ h'.templates[call'.name] = h.templates[call'.name]
           /\ ~call'.panic
                 => /\ DOMAIN h'.templates = DOMAIN h.templates \cup {call'.name}
                    /\ h'.templates[call'.name] = call'.text ]_vars

C12_Witness ==
    /\ call.op = "RegisterTemplate"
    /\ call.panic
    /\ call.name = <<"/", "page">>
    /\ call.text = FailingText
    /\ h.templates[call.name] = "T1"

(* C13: NewHandler called without an asset filesystem (config.FS nil)     *)
(* fails with the error "fs is nil" in development and in production      *)
(* mode alike, returns no handler, and has by then neither opened or      *)
(* parsed a manifest nor looked for a public directory, whatever the      *)
(* state of the manifest file.                                            *)
C13_NilFSFailsFirst ==
    (call.op = "NewHandler" /\ call.config.FS = "nil")
    => /\ call.err = "vite: fs is nil"
       /\ h = NoHandler
       /\ call.accesses = <<>>

C13_Witness ==
    /\ call.op = "NewHandler"
    /\ call.config.FS = "nil"
    /\ ~call.config.IsDev
    /\ mfile = "absent"
    /\ call.err = "vite: fs is nil"
    /\ ~h.constructed

(* C14: in production mode, with a filesystem given, NewHandler and       *)
(* HTMLFragment fail with an "open manifest" error when the manifest      *)
(* cannot be opened and with a "parse manifest" error when it opens and   *)
(* is malformed; neither returns a handler or a fragment then.  The open  *)
(* comes first: a manifest that cannot be opened gives the open error     *)
(* also when the manifest file in the filesystem is malformed, and it is  *)
(* never parsed.                                                          *)
C14_ManifestOpenAndParseErrors ==
    /\ ( call.op = "NewHandler" /\ ~call.config.IsDev /\ call.config.FS = "fs" )
       => /\ CannotOpenManifest(call.config)
                => /\ call.err = "vite: open manifest"
                   /\ h = NoHandler
                   /\ call.accesses = <<OpenAccess(ManifestPathOf(call.config))>>
          /\ (~CannotOpenManifest(call.config) /\ mfile = "malformed")
                => /\ call.err = "vite: parse manifest"
                   /\ h = NoHandler
          /\ (~CannotOpenManifest(call.config) /\ mfile = "ok")
                => call.err = "" /\ h.constructed
    /\ ( IsFragmentCall /\ ~call.config.IsDev /\ call.config.FS = "fs" )
       => /\ ~call.result.panic
          /\ CannotOpenManifest(call.config)
                => /\ call.result.err = "vite: open manifest"
                   /\ call.result.fragment = NoFragment
                   /\ call.result.accesses = <<OpenAccess(ManifestPathOf(call.config))>>
          /\ (~CannotOpenManifest(call.config) /\ mfile = "malformed")
                => /\ call.result.err = "vite: parse manifest"
                   /\ call.result.fragment = NoFragment
          /\ (~CannotOpenManifest(call.config) /\ mfile = "ok")
                => call.result.err \notin {"vite: open manifest", "vite: parse manifest"}

C14_Witness ==
    /\ IsFragmentCall
    /\ ~call.config.IsDev /\ call.config.FS = "fs"
    /\ mfile = "malformed"
    /\ call.config.ViteManifest = "missing.json"
    /\ call.result.err = "vite: open manifest"
    /\ call.result.fragment.nil

\* No access of the sequence opens or parses a file.
NoManifestAccess(accesses) ==
    \A i \in DOMAIN accesses : accesses[i].access \notin {"open", "parse"}

(* C15: in development mode no manifest is opened or parsed.  NewHandler  *)
(* with a filesystem succeeds with the manifest file present, malformed   *)
(* or absent, and without opening or parsing it; HTMLFragment succeeds    *)
(* without any access to the filesystem; the manifest of a development    *)
(* handler is unset in every state, page renders included, and no page    *)
(* render of it fails for want of an entry or carries a manifest's tags.  *)
C15_NoManifestInDevelopment ==
    /\ ( call.op = "NewHandler" /\ call.config.IsDev /\ call.config.FS = "fs" )
       => /\ call.err = ""
          /\ h.constructed /\ h.isDev
          /\ NoManifestAccess(call.accesses)
    /\ ( IsFragmentCall /\ call.config.IsDev )
       => /\ ~call.result.panic
          /\ call.result.err = ""
          /\ ~call.result.fragment.nil
          /\ call.result.accesses = <<>>
    /\ ( h.constructed /\ h.isDev )
       => ~h.hasManifest /\ h.manifest = EmptyManifest
    /\ ( IsServeCall /\ h.isDev )
       => /\ NoTags(call.resp)
          /\ call.resp.status = "error" => ExecFails(call.resp.text)

C15_Witness ==
    /\ IsServeCall
    /\ h.isDev
    /\ mfile = "malformed"
    /\ ~h.hasManifest
    /\ call.resp.status = "page"

(* C16: the mode of a handler is fixed at construction.  A handler is in  *)
(* the mode its configuration asked for; no step of RegisterTemplate,     *)
(* SetDefaultMetadata or ServeHTTP, nor any other, changes the mode or    *)
(* the manifest of a constructed handler; and in every state a production *)
(* handler holds the manifest parsed from the manifest file, while a      *)
(* development handler holds none.                                        *)
C16_ModeFixedAtConstruction ==
    /\ [] ( h.constructed
            => /\ h.hasManifest <=> ~h.isDev
               /\ ~h.isDev => (mfile = "ok" /\ h.manifest = manifest)
               /\ h.isDev => h.manifest = EmptyManifest )
    /\ [][ /\ (call'.op = "NewHandler" /\ h'.constructed)
                 => h'.isDev = call'.config.IsDev
           /\ h.constructed
                 => /\ h'.constructed
                    /\ h'.isDev = h.isDev
                    /\ h'.hasManifest = h.hasManifest
                    /\ h'.manifest = h.manifest ]_vars

C16_Witness ==
    /\ IsServeCall
    /\ ~h.isDev /\ h.hasManifest
    /\ h.manifest = ServedManifest
    /\ h.defaultMetadata # ""
    /\ <<"/", "page">> \in DOMAIN h.templates
    /\ call.resp.status = "page"

\* The responses that a handler may give to a request, over the orders in
\* which its manifest may be iterated.
ResponsesTo(hh, req) ==
    { ServeHTTPResponse(hh, req, order) : order \in Orders(hh.manifest) }

(* C17: serving a request changes nothing of the handler.  Over every     *)
(* ServeHTTP step, whatever its response, the manifest, the template set, *)
(* the mode and the default metadata of the handler are what they were,   *)
(* the manifest file is untouched, and the request served would get from  *)
(* the handler after the step the response it got; as the handler is the  *)
(* same, so is its response to any other request.                         *)
C17_ServingLeavesHandlerUnchanged ==
    [][ call'.op = "ServeHTTP"
        => /\ h' = h
           /\ h'.manifest = h.manifest
           /\ h'.templates = h.templates
           /\ h'.isDev = h.isDev
           /\ h'.defaultMetadata = h.defaultMetadata
           /\ manifest' = manifest /\ mfile' = mfile
           /\ ResponsesTo(h', call'.req) = ResponsesTo(h, call'.req)
           /\ call'.resp \in ResponsesTo(h', call'.req) ]_vars

C17_Witness ==
    /\ IsServeCall
    /\ call.resp.status = "error"
    /\ ExecFails(call.resp.text)
    /\ call.req.md = "request metadata"
    /\ h.defaultMetadata = "default metadata"

(* C18: ServeHTTP invocations that run concurrently on one handler, with  *)
(* no registration in progress and no synchronization, do not disturb     *)
(* each other: however the steps of the goroutines interleave, the        *)
(* response that a goroutine ends with is one that the handler gives to   *)
(* its request when it serves that request alone.                         *)
C18_ConcurrentServingIsIsolated ==
    \A g \in DOMAIN serving :
        serving[g].pc = "done"
        => serving[g].resp \in ResponsesTo(h, serving[g].req)

C18_Witness ==
    /\ serving # NoServing
    /\ serving[1].pc = "done"
    /\ serving[1].resp.status = "page"
    /\ serving[1].req.md = "request metadata"
    /\ serving[2].pc = "execute"
    /\ serving[2].req.md = ""
    /\ serving[2].page # serving[1].resp.page

AssetKinds == {"stylesheet", "module", "modulepreload"}

\* The place of a group of tags in a production page.
GroupRank(kind) ==
    IF kind = "stylesheet" THEN 1 ELSE IF kind = "module" THEN 2
    ELSE IF kind = "modulepreload" THEN 3 ELSE 0

\* The lines of a body that hold tags of assets.
IsAssetLine(line) == line # <<>> /\ line[1].kind \in AssetKinds
AssetLines(lines) == SelectSeq(lines, IsAssetLine)

\* The lines are groups of tags in the order stylesheets, module script,
\* modulepreloads: no line is empty, a line holds tags of one kind, the
\* kinds come in that order and each at most once, and the module line
\* holds one tag.
GroupsInOrder(lines) ==
    /\ \A i \in DOMAIN lines :
          /\ lines[i] # <<>>
          /\ \A j \in DOMAIN lines[i] :
                /\ lines[i][j].kind \in AssetKinds
                /\ lines[i][j].kind = lines[i][1].kind
          /\ lines[i][1].kind = "module" => Len(lines[i]) = 1
    /\ \A i, j \in DOMAIN lines :
          i < j => GroupRank(lines[i][1].kind) < GroupRank(lines[j][1].kind)

\* The chunks that entry resolution may select for the identifier e.
ResolvableEntries(m, e) ==
    { k \in DOMAIN m : m[k].IsEntry /\ (e = "" \/ m[k].Src = e) }

\* The tags that the three generators give for the chunk of key k, one
\* group after the other.
TagsOfChunk(m, k, prefix) ==
    GenerateCSS(m, m[k].Src, prefix) \o GenerateModules(m, m[k].Src, prefix)
    \o GeneratePreloadModules(m, m[k].Src, prefix)

(* C19: the tags of a production page come in the order: the stylesheet   *)
(* links, then the one module script, then the modulepreload links, and   *)
(* a group without tags is left out.  This holds for the fragment of      *)
(* HTMLFragment and for the page that the handler renders with its        *)
(* fallback template, where the groups stand together between the         *)
(* metadata and the scripts; in both the tags are those the generators    *)
(* give for the entry.                                                    *)
C19_TagGroupsInOrder ==
    /\ ( IsFragmentCall /\ ~call.config.IsDev /\ ~call.result.fragment.nil )
       => /\ GroupsInOrder(call.result.fragment.Tags)
          /\ \E k \in ResolvableEntries(manifest, call.config.ViteEntry) :
                Flatten(call.result.fragment.Tags)
                   = TagsOfChunk(manifest, k, call.config.AssetsURLPrefix)
    /\ ( /\ IsServeCall /\ ~h.isDev
         /\ call.resp.status = "page" /\ call.resp.text = fallbackHTML )
       => /\ GroupsInOrder(AssetLines(call.body))
          /\ \E k \in ResolvableEntries(h.manifest, h.viteEntry) :
                Flatten(AssetLines(call.body)) = TagsOfChunk(h.manifest, k, "")
          /\ call.body = LineIf(Text("metadata", call.resp.page.Metadata))
                         \o AssetLines(call.body)
                         \o LineIf(Text("scripts", call.resp.page.Scripts))

C19_Witness ==
    /\ IsServeCall /\ ~h.isDev
    /\ manifest = ExampleManifest
    /\ h.viteEntry = "views/foo.js"
    /\ call.resp.status = "page" /\ call.resp.text = fallbackHTML
    /\ call.req.md # "" /\ call.req.scripts # ""
    /\ Len(AssetLines(call.body)) = 3
    /\ Len(AssetLines(call.body)[1]) = 2
    /\ Len(AssetLines(call.body)[3]) = 2

\* The paths of assets that a manifest names: the files and the stylesheets
\* of its chunks.
AssetPaths(m) ==
    { m[k].File : k \in DOMAIN m } \cup UNION { SeqToSet(m[k].CSS) : k \in DOMAIN m }

\* Every tag of the sequence has the URL prefix "/" path, with a path of
\* the manifest.
URLsCarryPrefix(tags, prefix, m) ==
    \A i \in DOMAIN tags :
        /\ tags[i].kind \in AssetKinds
        /\ Len(tags[i].url) = 3
        /\ tags[i].url[1] = prefix
        /\ tags[i].url[2] = "/"
        /\ tags[i].url[3] \in AssetPaths(m) \ {""}

\* The tags of the page of a response, whatever template prints them.
PageTags(resp) == resp.page.StyleSheets \o resp.page.Modules \o resp.page.PreloadModules

(* C20: in production mode every stylesheet, module script and            *)
(* modulepreload URL is the asset URL prefix of the configuration, then   *)
(* "/", then the path from the manifest, in the fragment of HTMLFragment  *)
(* and in the page that the handler renders alike; with the empty prefix  *)
(* every URL begins with "/".                                             *)
C20_URLsCarryConfiguredPrefix ==
    /\ ( IsFragmentCall /\ ~call.config.IsDev /\ ~call.result.fragment.nil )
       => URLsCarryPrefix(Flatten(call.result.fragment.Tags),
                          call.config.AssetsURLPrefix, manifest)
    /\ ( IsServeCall /\ ~h.isDev /\ call.resp.status = "page" )
       => URLsCarryPrefix(PageTags(call.resp), h.given.AssetsURLPrefix, h.manifest)

\* A handler configured with a prefix renders a page whose URLs lack it.
C20_Witness ==
    /\ IsServeCall /\ ~h.isDev
    /\ h.given.AssetsURLPrefix = "/assets"
    /\ call.resp.status = "page"
    /\ PageTags(call.resp) # <<>>
    /\ \A i \in DOMAIN PageTags(call.resp) : PageTags(call.resp)[i].url[1] = ""

\* The URL of the Vite server that a configuration stands for.
ServerOf(config) == IF config.ViteURL = "" THEN "http://localhost:5173" ELSE config.ViteURL

\* The entry path that a configuration stands for in development mode.
EntryOf(config) == IF config.ViteEntry = "" THEN "src/main.tsx" ELSE config.ViteEntry

\* A URL of the Vite server written without its closing slash, and a path
\* written without its opening slash.
WithoutClosingSlash(u) == IF u = "http://vite:3000/" THEN "http://vite:3000" ELSE u
WithoutOpeningSlash(p) == IF p = "/src/app.tsx" THEN "src/app.tsx" ELSE p

\* The URL {server}/{path}, with one slash between the two.
At(server, p) == <<WithoutClosingSlash(server), "/", WithoutOpeningSlash(p)>>

\* The scaffolding of the configuration has a preamble.
PreambleApplies(t) == t < 1 \/ t \in {1, 2, 3, 4}

IsDevFragment ==
    IsFragmentCall /\ call.config.IsDev /\ ~call.result.fragment.nil

(* C21: a development fragment holds, in this order, the preamble when    *)
(* the scaffolding has one, the script tag of the dev client at           *)
(* {ViteURL}/@vite/client and one module script tag of the entry at       *)
(* {ViteURL}/{ViteEntry}, where an unset ViteURL stands for               *)
(* http://localhost:5173 and an unset ViteEntry for src/main.tsx; it      *)
(* holds no stylesheet link and no modulepreload link.                    *)
C21_DevelopmentFragment ==
    IsDevFragment =>
       LET tags == Flatten(call.result.fragment.Tags)
           server == ServerOf(call.config)
           client == [kind |-> "module", url |-> At(server, "@vite/client")]
           entry == [kind |-> "module", url |-> At(server, EntryOf(call.config))]
           preamble == [kind |-> "preamble", url |-> At(server, "@react-refresh")]
       IN /\ tags = (IF PreambleApplies(call.config.ViteTemplate) THEN <<preamble>> ELSE <<>>)
                    \o <<client, entry>>
          /\ \A i \in DOMAIN tags : tags[i].kind \notin {"stylesheet", "modulepreload"}
          /\ Cardinality({ i \in DOMAIN tags : tags[i] = entry }) = 1

C21_Witness ==
    /\ IsDevFragment
    /\ call.config.ViteURL = "" /\ call.config.ViteEntry = ""
    /\ call.config.ViteTemplate = ReactTs
    /\ Len(Flatten(call.result.fragment.Tags)) = 3
    /\ Flatten(call.result.fragment.Tags)[3].url = <<"http://localhost:5173", "/", "src/main.tsx">>

\* The templates whose dev integration needs the preamble, and the others.
PreambleScaffoldings == {React, ReactTs, ReactSwc, ReactSwcTs}
OtherScaffoldings ==
    {Vanilla, VanillaTs, Vue, VueTs, Preact, PreactTs, Lit, LitTs, Svelte, SvelteTs,
     Solid, SolidTs, Qwik, QwikTs, None}

\* The tags hold a preamble.
HasPreamble(tags) == \E i \in DOMAIN tags : tags[i].kind = "preamble"

\* A preamble is due in this mode with this scaffolding.
PreambleDue(isDev, t) == isDev /\ (t < 1 \/ t \in PreambleScaffoldings)

(* C22: the preamble is emitted if and only if the mode is development    *)
(* and the scaffolding is unset (below 1) or one of React, ReactTs,       *)
(* ReactSwc, ReactSwcTs: so it is for every fragment that HTMLFragment    *)
(* returns and for every page that the handler renders (in the page data  *)
(* and in what the fallback template writes), and no preamble comes with  *)
(* another scaffolding or in production mode.                             *)
C22_PreambleIffDevelopmentReact ==
    /\ ( IsFragmentCall /\ ~call.result.fragment.nil )
       => /\ HasPreamble(Flatten(call.result.fragment.Tags))
               <=> PreambleDue(call.config.IsDev, call.config.ViteTemplate)
          /\ ( ~call.config.IsDev \/ call.config.ViteTemplate \in OtherScaffoldings )
               => ~HasPreamble(Flatten(call.result.fragment.Tags))
    /\ ( IsServeCall /\ call.resp.status = "page" )
       => /\ call.resp.page.PluginReactPreamble # <<>>
               <=> PreambleDue(h.isDev, h.viteTemplate)
          /\ HasPreamble(call.resp.page.PluginReactPreamble)
               <=> PreambleDue(h.isDev, h.viteTemplate)
          /\ call.resp.text = fallbackHTML
               => ( HasPreamble(Flatten(call.body)) <=> PreambleDue(h.isDev, h.viteTemplate) )
          /\ ( ~h.isDev \/ h.viteTemplate \in OtherScaffoldings )
               => ~HasPreamble(Flatten(call.body))

C22_Witness ==
    /\ IsServeCall /\ call.resp.status = "page" /\ call.resp.text = fallbackHTML
    /\ h.isDev /\ h.viteTemplate = ReactSwcTs
    /\ HasPreamble(Flatten(call.body))

\* The chunks of m with isEntry = true, by key.
EntryChunks(m) == { k \in DOMAIN m : m[k].IsEntry }

(* C23: GetEntryPoints returns the chunks with isEntry = true, each once  *)
(* and no other chunk, whatever the order of the keys; GetEntryPoint      *)
(* returns one of these chunks when there is one, and nil exactly when    *)
(* no chunk has isEntry = true.                                           *)
C23_EntryPointsAreTheEntryChunks ==
    /\ call.op = "GetEntryPoints"
       => /\ SeqToSet(call.entries) = EntryChunks(manifest)
          /\ NoDuplicates(call.entries)
          /\ Len(call.entries) = Cardinality(EntryChunks(manifest))
    /\ call.op = "GetEntryPoint"
       => /\ call.chunk.nil <=> EntryChunks(manifest) = {}
          /\ ~call.chunk.nil => call.chunk.key \in EntryChunks(manifest)

C23_Witness ==
    /\ call.op = "GetEntryPoints"
    /\ manifest = SharedSrcManifest
    /\ Len(call.entries) = 3
    /\ call.entries[1] = "views/foo.js"

\* The request ended in the execution of a template, with or without
\* success.
TemplateExecuted == IsServeCall /\ call.resp.tmpl # <<>>

\* The name under which the page of a path is looked up.
PageName(path) == IF path = <<"/">> THEN <<"index", ".html">> ELSE path

\* A name without its leading slash, and without its .html suffix.
Unslashed(name) == IF name # <<>> /\ name[1] = "/" THEN SubSeq(name, 2, Len(name)) ELSE name
Unsuffixed(name) ==
    IF name # <<>> /\ name[Len(name)] = ".html" THEN SubSeq(name, 1, Len(name) - 1) ELSE name

\* The names that stand for a requested name: itself, and its variants
\* with the leading slash removed, .html appended, .html removed.
NameVariants(name) ==
    { name, Unslashed(name), name \o <<".html">>, Unslashed(name) \o <<".html">>,
      Unsuffixed(Unslashed(name)) }

(* C24: a freshly constructed handler holds the fallback template only,   *)
(* so RegisterTemplate("index.html", t) on it succeeds; with index.html   *)
(* registered (and nothing under "/index.html" itself) a request for "/"  *)
(* and one for "/index.html" are both rendered with t; and when no        *)
(* template is registered under the requested name or one of its          *)
(* variants, the page is rendered with the built-in fallback template.    *)
C24_IndexTemplateAndFallback ==
    /\ [] ( /\ ( call.op = "NewHandler" /\ call.err = "" )
               => h.templates = ( fallbackTemplateName :> fallbackHTML )
            /\ ( /\ TemplateExecuted /\ IsIndex(call.path)
                 /\ <<"index", ".html">> \in DOMAIN h.templates
                 /\ <<"/", "index", ".html">> \notin DOMAIN h.templates )
               => /\ call.resp.tmpl = <<"index", ".html">>
                  /\ call.resp.text = h.templates[<<"index", ".html">>]
            /\ ( /\ TemplateExecuted
                 /\ NameVariants(PageName(call.path)) \cap DOMAIN h.templates = {} )
               => /\ call.resp.tmpl = fallbackTemplateName
                  /\ call.resp.text = fallbackHTML )
    /\ [][ ( /\ call.op = "NewHandler" /\ call.err = ""
             /\ call'.op = "RegisterTemplate" /\ call'.name = <<"index", ".html">> )
           => /\ ~call'.panic
              /\ h'.templates = ( fallbackTemplateName :> fallbackHTML )
                                @@ ( <<"index", ".html">> :> call'.text ) ]_vars

C24_Witness ==
    /\ IsServeCall /\ call.path = <<"/", "index", ".html">>
    /\ DOMAIN h.templates = { fallbackTemplateName, <<"index", ".html">> }
    /\ call.resp.status = "page"
    /\ call.resp.tmpl = <<"index", ".html">> /\ call.resp.text = "T1"

(* C25: the links of the tag generator are deduplicated: no stylesheet    *)
(* href occurs twice in the output of GenerateCSS and no modulepreload    *)
(* href occurs twice in the output of GeneratePreloadModules, also when   *)
(* two reachable chunks list the same css path or have the same file.     *)
C25_LinksDeduplicated ==
    ( IsCSSCall \/ IsPreloadCall ) => NoDuplicates(call.out)

\* Two chunks reached from the root list the same css path, and each has
\* written its link.
C25_Witness ==
    /\ IsCSSCall
    /\ \E i, j \in DOMAIN call.out :
          /\ i < j
          /\ call.out[i] = call.out[j]
          /\ call.from[i] # call.from[j]
          /\ call.from[i] \in ReachableChunks(manifest, call.name)
          /\ call.from[j] \in ReachableChunks(manifest, call.name)

\* The tags of the chunk under key k itself: the stylesheets and preloads
\* of the traversals rooted at it, and the script of its file.
OwnTags(m, k, prefix) ==
    [StyleSheets |-> GenerateCSS(m, k, prefix),
     Modules |-> IF m[k].File # "" THEN <<ModuleScript(prefix, m[k].File)>> ELSE <<>>,
     PreloadModules |-> GeneratePreloadModules(m, k, prefix)]

\* The tags are those of one of the chunks in S.
TagsOfOneOf(S, m, prefix, css, modules, preloads) ==
    \E k \in S :
        /\ css = OwnTags(m, k, prefix).StyleSheets
        /\ modules = OwnTags(m, k, prefix).Modules
        /\ preloads = OwnTags(m, k, prefix).PreloadModules

\* The tags of a fragment, by kind.
TagsOfKind(tags, kind) == SelectSeq(tags, LAMBDA t : t.kind = kind)

(* C26: in production mode the tags generated are those of the entry      *)
(* chunk that entry resolution selects (the entry with the requested src, *)
(* or an entry when none is requested): the module script is the one of   *)
(* its file and the stylesheets and preloads are those of the traversals  *)
(* rooted at it, also when the key of the chunk differs from its src or   *)
(* its src is empty.                                                      *)
C26_TagsOfTheSelectedEntry ==
    /\ ( IsFragmentCall /\ ~call.config.IsDev /\ ~call.result.fragment.nil )
       => LET tags == Flatten(call.result.fragment.Tags) IN
          TagsOfOneOf(ResolvableEntries(manifest, call.config.ViteEntry), manifest,
                      call.config.AssetsURLPrefix,
                      TagsOfKind(tags, "stylesheet"), TagsOfKind(tags, "module"),
                      TagsOfKind(tags, "modulepreload"))
    /\ ( IsServeCall /\ ~h.isDev /\ call.resp.status = "page" )
       => TagsOfOneOf(ResolvableEntries(h.manifest, h.viteEntry), h.manifest, "",
                      call.resp.page.StyleSheets, call.resp.page.Modules,
                      call.resp.page.PreloadModules)

\* The entry under the key "main" is selected by its src, and the page
\* holds none of its tags.
C26_Witness ==
    /\ IsServeCall /\ ~h.isDev /\ call.resp.status = "page"
    /\ h.manifest = AliasManifest /\ h.viteEntry = "src/main.js"
    /\ ResolvableEntries(h.manifest, h.viteEntry) = {"main"}
    /\ h.manifest["main"].File # ""
    /\ call.resp.page.Modules = <<>>

\* Goroutine g has begun to serve a request, or has served one.
ServingBegun(g) == serving[g].pc # "idle"

(* C27: no registration takes effect once serving has begun: from the     *)
(* time a goroutine of the handler takes its first request, through its   *)
(* reads of the templates and after it is done, the handler holds the     *)
(* templates that it held when the request came in.                       *)
C27_NoRegistrationAfterServing ==
    \A g \in DOMAIN serving : ServingBegun(g) => h.templates = serving[g].seen

\* A request was answered with the file of its path, and a template is
\* registered for that path afterwards.
C27_Witness ==
    /\ serving # NoServing
    /\ serving[1].pc = "done"
    /\ serving[1].path = <<"/", "page">>
    /\ serving[1].resp.status = "static"
    /\ call.op = "RegisterTemplate" /\ ~call.panic
    /\ call.name = <<"/", "page">>
    /\ <<"/", "page">> \in DOMAIN h.templates
    /\ <<"/", "page">> \notin DOMAIN serving[1].seen

\* What HTMLFragment may return for a configuration, over the orders in
\* which the manifest may be iterated.
FragmentsOf(config) ==
    { [err |-> r.err, fragment |-> r.fragment] :
        r \in { HTMLFragmentResult(config, mfile, manifest, order) :
                  order \in Orders(manifest) } }

(* C28: with an entry identifier given, the production fragment is a      *)
(* function of the manifest and the configuration: whatever the order in  *)
(* which the chunks are iterated, a second call returns the same tags,    *)
(* or the same error, as the call made, also when several entry chunks    *)
(* have the src requested.                                                *)
C28_FragmentIsDeterministic ==
    ( IsFragmentCall /\ ~call.config.IsDev /\ call.config.ViteEntry # "" )
    => FragmentsOf(call.config)
          = { [err |-> call.result.err, fragment |-> call.result.fragment] }

C28_Witness ==
    /\ IsFragmentCall /\ ~call.config.IsDev
    /\ manifest = SharedSrcManifest
    /\ call.config.ViteEntry = "app.js"
    /\ Cardinality({ k \in DOMAIN manifest :
                        manifest[k].IsEntry /\ manifest[k].Src = "app.js" }) = 2
    /\ ~call.result.fragment.nil
    /\ Len(Flatten(call.result.fragment.Tags)) = 3

C30_FragmentFailuresAreErrors ==
    IsFragmentCall =>
       /\ ~call.result.panic
       /\ call.result.err # "" <=> call.result.fragment.nil
       /\ ( ~call.config.IsDev /\ call.config.FS = "nil" )
          => /\ call.result.err # ""
             /\ call.result.fragment.nil
             /\ NewHandlerResult(call.config, mfile, manifest).err # ""
       /\ ( call.config.IsDev /\ call.config.FS = "nil" )
          => /\ call.result.err = ""
             /\ ~call.result.fragment.nil
             /\ call.result.accesses = <<>>

\* HTMLFragment in production mode without filesystem.
C30_Witness ==
    /\ IsFragmentCall
    /\ ~call.config.IsDev /\ call.config.FS = "nil"
    /\ call.result.panic
    /\ NewHandlerResult(call.config, mfile, manifest).err = "vite: fs is nil"

=============================================================================
